---------------------------- MODULE Spec2Model ----------------------------
(***************************************************************************)
(* Model of the Mini-news aggregation engine (services/newsService.js),   *)
(* its article cache (news_articles table, database/db.js) and the pure   *)
(* helpers sanitizeText and calculateRelevanceScore, and of the HTTP routes *)
(* (routes/news.js, routes/auth.js, routes/user.js) over the tables.       *)
(*                                                                         *)
(* Text is a sequence of one-character strings, so that substring tests   *)
(* (String.prototype.includes) and the regular-expression replacements    *)
(* are computed character by character, as the JavaScript does.           *)
(* Time is counted in whole hours since an arbitrary epoch (UTC).         *)
(***************************************************************************)
EXTENDS Integers, Sequences, FiniteSets, TLC

VARIABLES
    \* ---- getPersonalizedNews (one request) ----
    profile,        \* the userProfile argument, or NoProfile before the call
    pc,             \* "idle" | "running" | "done" | "failed"
    groups,         \* the three members of Promise.all: location, industry, global
    calls,          \* outbound axios.get calls issued, per query slot
    result,         \* the returned buckets, or NoResult
    \* ---- fetchNewsFromAPI, observed at its boundary ----
    lastFetch,
    \* ---- article cache ----
    now,            \* the clock, hours (UTC)
    tzOffset,       \* server local time minus UTC, hours
    news_articles,  \* rows of the news_articles table
    lastRefresh,    \* this.lastRefresh
    op,             \* the last cache operation performed and its outcome
    \* ---- sanitizeText ----
    text, clean, clean2,
    \* ---- calculateRelevanceScore ----
    article, keyword, score,
    \* ---- the HTTP routes and the tables behind them ----
    users,          \* rows of the users table
    user_sessions,  \* rows of the user_sessions table
    user_bookmarks, \* rows of the user_bookmarks table
    epoch,          \* the clock of the session routes, seconds
    req,            \* the last request handled
    res,            \* the response to it
    engineCall,     \* the arguments of the last call of getLocationBasedNews
    removedTokens,  \* history: the tokens whose session rows a logout, a
                    \* password change or an account deletion has removed
    labelled,       \* the last article the location group made of an
                    \* answer, with the query that was answered
    user_reading_history,  \* rows of the user_reading_history table
    flights,        \* the handlers in flight, each at one of its awaits, and
                    \* the handlers that have answered
    settled         \* history: for each member of Promise.all, the outcomes
                    \* of its outbound calls that have settled, in order

vars == <<profile, pc, groups, calls, result, lastFetch, now, tzOffset,
          news_articles, lastRefresh, op, text, clean, clean2,
          article, keyword, score, users, user_sessions, user_bookmarks,
          epoch, req, res, engineCall, removedTokens, labelled, settled,
          user_reading_history, flights>>

engineVars == <<profile, pc, groups, calls, result, labelled, settled>>
cacheVars  == <<tzOffset, news_articles, lastRefresh, op>>
textVars   == <<text, clean, clean2>>
scoreVars  == <<article, keyword, score>>
tableVars  == <<users, user_sessions, user_bookmarks>>
routeVars  == <<epoch, req, res, engineCall>>
flightVars == <<user_reading_history, flights>>
apiVars    == <<tableVars, routeVars, removedTokens, flightVars>>

-----------------------------------------------------------------------------
(* Bounds of the model *)

\* longest input text given to sanitizeText
MaxTextLen == 6

\* longest query given to fetchNewsFromAPI on its own
MaxQueryLen == 3

\* last position of a request's cache writes at which the database is made
\* to refuse the statement
MaxFailAt == 3

\* the requests one behaviour of the routes specification makes
MaxRouteRequests == 1

\* the seconds the clock of the sessions runs
MaxEpoch == 1

\* most rows of user_sessions
MaxSessions == 2

\* most rows of user_bookmarks
MaxBookmarks == 1

\* the handlers that are in flight at once or have answered
MaxFlights == 2

\* most articles the news source returns for one query
MaxArticles == 11

\* oldest publication age drawn for calculateRelevanceScore, hours
MaxAge == 25

\* furthest publication time after the call drawn, hours
MaxFuture == 2

\* the hour at which the clock starts
ClockStart == 20

\* hours the clock may advance
MaxElapsed == 8

\* largest distance of the server's local time from UTC, hours
MaxTz == 1

\* number of distinct article ids saved to the cache
MaxCacheIds == 2

-----------------------------------------------------------------------------
(* JavaScript values *)

\* null / undefined: a value that is falsy and is no text
Null == <<"NULL">>

\* the empty string
Empty == <<>>

\* !v for a text-or-null value
Falsy(v) == v = Null \/ v = Empty

\* a || b
OrElse(a, b) == IF Falsy(a) THEN b ELSE a

Uppers ==
    <<"A","B","C","D","E","F","G","H","I","J","K","L","M",
      "N","O","P","Q","R","S","T","U","V","W","X","Y","Z">>

Lowers ==
    <<"a","b","c","d","e","f","g","h","i","j","k","l","m",
      "n","o","p","q","r","s","t","u","v","w","x","y","z">>

Digits == {"0","1","2","3","4","5","6","7","8","9"}

Range(s) == {s[i] : i \in DOMAIN s}

\* the regular-expression class \w
WordChars == Range(Uppers) \cup Range(Lowers) \cup Digits \cup {"_"}

\* the regular-expression class \s, as far as the model's texts use it
WhiteSpace == {" ", "\t", "\n", "\r"}

\* the lower-case letter of each upper-case letter
LowerOf ==
    [c \in Range(Uppers) |-> Lowers[CHOOSE i \in DOMAIN Uppers : Uppers[i] = c]]

UpperChars == Range(Uppers)

toLowerChar(c) == IF c \in UpperChars THEN LowerOf[c] ELSE c

\* String.prototype.toLowerCase
toLowerCase(s) == <<>> \o [i \in DOMAIN s |-> toLowerChar(s[i])]

\* String.prototype.includes
Includes(s, t) ==
    \E i \in 0..(Len(s) - Len(t)) : SubSeq(s, i + 1, i + Len(t)) = t

\* Array.prototype.slice(0, n)
Slice(s, n) == SubSeq(s, 1, IF Len(s) < n THEN Len(s) ELSE n)

-----------------------------------------------------------------------------
(* Texts the service and the model use *)

sReuters ==
    <<"R","e","u","t","e","r","s">>

sBloomberg ==
    <<"B","l","o","o","m","b","e","r","g">>

sWallStreetJournal ==
    <<"W","a","l","l"," ","S","t","r","e","e","t"," ","J","o","u","r","n",
      "a","l">>

sFinancialTimes ==
    <<"F","i","n","a","n","c","i","a","l"," ","T","i","m","e","s">>

sUnknown ==
    <<"U","n","k","n","o","w","n">>

sBusiness ==
    <<"b","u","s","i","n","e","s","s">>

sEconomy ==
    <<"e","c","o","n","o","m","y">>

sSpBusiness ==
    <<" ","b","u","s","i","n","e","s","s">>

sSpEconomy ==
    <<" ","e","c","o","n","o","m","y">>

sSpBusinessNews ==
    <<" ","b","u","s","i","n","e","s","s"," ","n","e","w","s">>

sGlobalBusinessEconomy ==
    <<"g","l","o","b","a","l"," ","b","u","s","i","n","e","s","s"," ","e",
      "c","o","n","o","m","y">>

sMockTitle1a ==
    <<"B","r","e","a","k","i","n","g",":"," ","M","a","j","o","r"," ">>

sMockTitle1b ==
    <<" ","D","e","v","e","l","o","p","m","e","n","t"," ","A","n","n","o",
      "u","n","c","e","d">>

sMockDesc1a ==
    <<"I","m","p","o","r","t","a","n","t"," ","n","e","w","s"," ","i","n",
      " ","t","h","e"," ">>

sMockDesc1b ==
    <<" ","s","e","c","t","o","r"," ","a","f","f","e","c","t","i","n","g",
      " ","b","u","s","i","n","e","s","s"," ","o","p","e","r","a","t","i",
      "o","n","s"," ","a","n","d"," ","m","a","r","k","e","t"," ","t","r",
      "e","n","d","s",".">>

sMockTitle2b ==
    <<" ","M","a","r","k","e","t"," ","S","h","o","w","s"," ","S","t","r",
      "o","n","g"," ","G","r","o","w","t","h"," ","T","h","i","s"," ","Q",
      "u","a","r","t","e","r">>

sMockDesc2a ==
    <<"A","n","a","l","y","s","i","s"," ","o","f"," ","r","e","c","e","n",
      "t"," ">>

sMockDesc2b ==
    <<" ","m","a","r","k","e","t"," ","p","e","r","f","o","r","m","a","n",
      "c","e"," ","a","n","d"," ","f","u","t","u","r","e"," ","o","u","t",
      "l","o","o","k"," ","f","o","r"," ","i","n","v","e","s","t","o","r",
      "s",".">>

sMockTitle3a ==
    <<"I","n","n","o","v","a","t","i","o","n"," ","i","n"," ">>

sMockTitle3b ==
    <<":"," ","W","h","a","t"," ","B","u","s","i","n","e","s","s"," ","L",
      "e","a","d","e","r","s"," ","N","e","e","d"," ","t","o"," ","K","n",
      "o","w">>

sMockDesc3a ==
    <<"E","x","p","e","r","t"," ","i","n","s","i","g","h","t","s"," ","o",
      "n"," ","e","m","e","r","g","i","n","g"," ","t","r","e","n","d","s",
      " ","i","n"," ">>

sMockDesc3b ==
    <<" ","a","n","d"," ","t","h","e","i","r"," ","i","m","p","a","c","t",
      " ","o","n"," ","b","u","s","i","n","e","s","s"," ","s","t","r","a",
      "t","e","g","y",".">>

sMockUrl1 ==
    <<"h","t","t","p","s",":","/","/","e","x","a","m","p","l","e",".","c",
      "o","m","/","n","e","w","s","/","1">>

sMockUrl2 ==
    <<"h","t","t","p","s",":","/","/","e","x","a","m","p","l","e",".","c",
      "o","m","/","n","e","w","s","/","2">>

sMockUrl3 ==
    <<"h","t","t","p","s",":","/","/","e","x","a","m","p","l","e",".","c",
      "o","m","/","n","e","w","s","/","3">>

sMockImage1 ==
    <<"h","t","t","p","s",":","/","/","v","i","a",".","p","l","a","c","e",
      "h","o","l","d","e","r",".","c","o","m","/","4","0","0","x","2","0",
      "0","?","t","e","x","t","=","N","e","w","s","+","I","m","a","g","e">>

sMockImage2 ==
    <<"h","t","t","p","s",":","/","/","v","i","a",".","p","l","a","c","e",
      "h","o","l","d","e","r",".","c","o","m","/","4","0","0","x","2","0",
      "0","?","t","e","x","t","=","M","a","r","k","e","t","+","N","e","w",
      "s">>

sMockImage3 ==
    <<"h","t","t","p","s",":","/","/","v","i","a",".","p","l","a","c","e",
      "h","o","l","d","e","r",".","c","o","m","/","4","0","0","x","2","0",
      "0","?","t","e","x","t","=","I","n","n","o","v","a","t","i","o","n",
      "+","N","e","w","s">>

sBusinessTimes ==
    <<"B","u","s","i","n","e","s","s"," ","T","i","m","e","s">>

sEconomicDaily ==
    <<"E","c","o","n","o","m","i","c"," ","D","a","i","l","y">>

sIndustryWeekly ==
    <<"I","n","d","u","s","t","r","y"," ","W","e","e","k","l","y">>

sCA ==
    <<"C","A">>

-----------------------------------------------------------------------------
(* sanitizeText: text.replace(/<[^>]*>/g, '').replace(/&[#\w]+;/g, '').trim() *)

\* the characters of s at the positions that satisfy keep, in order
KeepPositions(s, keep(_)) ==
    LET indexed == <<>> \o [i \in DOMAIN s |-> <<i, s[i]>>]
        kept    == SelectSeq(indexed, LAMBDA e : keep(e[1]))
    IN <<>> \o [i \in DOMAIN kept |-> kept[i][2]]

\* index of the first ">" at or after position i, or 0
FirstClose(s, i) ==
    IF \E j \in i..Len(s) : s[j] = ">"
    THEN CHOOSE j \in i..Len(s) :
            s[j] = ">" /\ \A k \in i..(j - 1) : s[k] # ">"
    ELSE 0

\* /<[^>]*>/ matches from position i: a "<" with a ">" somewhere after it;
\* the match ends at the first such ">"
TagAt(s, i) == s[i] = "<" /\ FirstClose(s, i + 1) # 0

\* Position k lies in one of the matches the global replacement removes. The
\* matches are found left to right, each search resuming after the previous
\* match. A "<" inside a match has the same first ">" after it as the match's
\* own "<" (a match holds no ">" before its end), and a "<" outside every
\* match that has a ">" after it starts a match; so the text removed is the
\* union, over every "<" with a later ">", of the stretch from it to its first ">".
InTag(s, k) ==
    \E i \in 1..k : TagAt(s, i) /\ k <= FirstClose(s, i + 1)

\* the replacement without the g flag: only the first tag is removed
StripTagsFirstOnly(s) ==
    IF \E i \in DOMAIN s : TagAt(s, i)
    THEN LET i == CHOOSE k \in DOMAIN s :
                      TagAt(s, k) /\ \A m \in 1..(k - 1) : ~TagAt(s, m)
         IN SubSeq(s, 1, i - 1) \o SubSeq(s, FirstClose(s, i + 1) + 1, Len(s))
    ELSE s

\* .replace(/<[^>]*>/g, ''): a text without "<" has no match and is returned
\* as it is
StripTags(s) ==
    IF \A i \in DOMAIN s : s[i] # "<" THEN s
    ELSE KeepPositions(s, LAMBDA k : ~InTag(s, k))

\* the characters of the class [#\w]
EntityChars == WordChars \cup {"#"}

\* length of the longest run of [#\w] characters starting at position i
EntityRun(s, i) ==
    CHOOSE n \in 0..(Len(s) - i + 1) :
        /\ \A k \in i..(i + n - 1) : s[k] \in EntityChars
        /\ (i + n > Len(s) \/ s[i + n] \notin EntityChars)

\* /&[#\w]+;/ matches from position i: the greedy run is at least one character
\* long and is followed by ";" (a shorter run is followed by a run character,
\* never by ";", so backtracking finds nothing more)
EntityAt(s, i) ==
    /\ s[i] = "&"
    /\ i < Len(s)
    /\ EntityRun(s, i + 1) >= 1
    /\ i + EntityRun(s, i + 1) + 1 <= Len(s)
    /\ s[i + EntityRun(s, i + 1) + 1] = ";"

\* Position k lies in one of the matches the global replacement removes. A
\* match holds no "&" but its first character, so no match starts inside
\* another one and every "&" at which the pattern matches starts a match.
InEntity(s, k) ==
    \E i \in 1..k : EntityAt(s, i) /\ k <= i + EntityRun(s, i + 1) + 1

\* .replace(/&[#\w]+;/g, ''): a text without "&" has no match and is returned
\* as it is
StripEntities(s) ==
    IF \A i \in DOMAIN s : s[i] # "&" THEN s
    ELSE KeepPositions(s, LAMBDA k : ~InEntity(s, k))

\* String.prototype.trim: the text from its first to its last character that
\* is not white space
Trim(s) ==
    IF \A i \in DOMAIN s : s[i] \in WhiteSpace THEN <<>>
    ELSE LET first == CHOOSE i \in DOMAIN s :
                          s[i] \notin WhiteSpace
                          /\ \A k \in 1..(i - 1) : s[k] \in WhiteSpace
             last  == CHOOSE i \in DOMAIN s :
                          s[i] \notin WhiteSpace
                          /\ \A k \in (i + 1)..Len(s) : s[k] \in WhiteSpace
         IN SubSeq(s, first, last)

\* each pass is applied to the value the pass before it returned
sanitizeText(t) ==
    IF Falsy(t) THEN Empty
    ELSE CHOOSE trimmed \in
             {Trim(noEntities) :
                 noEntities \in {StripEntities(noTags) :
                                    noTags \in {StripTags(t)}}} : TRUE

-----------------------------------------------------------------------------
(* calculateRelevanceScore *)

\* article.publishedAt as the news source (or getMockNewsData) gives it:
\* an ISO timestamp, absent (undefined), null, or text that is no date
PublishedAt(kind, t) == [kind |-> kind, t |-> t]

\* moment(x): the current time for undefined, the parsed time for an ISO
\* timestamp, an invalid moment for null and for unparsable text
Moment(p, clock) ==
    CASE p.kind = "undefined" -> [valid |-> TRUE, t |-> clock]
      [] p.kind = "iso"       -> [valid |-> TRUE, t |-> p.t]
      [] OTHER                -> [valid |-> FALSE, t |-> 0]

\* moment().diff(m, 'hours'): a whole number of hours, NaN for an invalid moment
DiffHours(clock, m) ==
    IF m.valid THEN [nan |-> FALSE, v |-> clock - m.t]
    ELSE [nan |-> TRUE, v |-> 0]

\* x < n in JavaScript: false whenever x is NaN
LessThan(x, n) == ~x.nan /\ x.v < n

\* a recency rule that penalises stale articles
RecencyPenalised(hoursAgo) ==
    IF LessThan(hoursAgo, 6) THEN 2
    ELSE IF LessThan(hoursAgo, 24) THEN 1
    ELSE -1

\* if (hoursAgo < 6) score += 2; else if (hoursAgo < 24) score += 1;
RecencyBonus(hoursAgo) ==
    IF LessThan(hoursAgo, 6) THEN 2
    ELSE IF LessThan(hoursAgo, 24) THEN 1
    ELSE 0

trustedSources == <<sReuters, sBloomberg, sWallStreetJournal, sFinancialTimes>>

\* a credibility rule that wants the source name to be a trusted name exactly
TrustedSourceExact(a) ==
    \E i \in DOMAIN trustedSources :
        OrElse(a.sourceName, Empty) = trustedSources[i]

\* trustedSources.some(source => (article.source?.name || '').includes(source))
TrustedSource(a) ==
    \E i \in DOMAIN trustedSources :
        Includes(OrElse(a.sourceName, Empty), trustedSources[i])

Min(a, b) == IF a < b THEN a ELSE b

calculateRelevanceScore(a, kw, clock) ==
    LET title       == toLowerCase(OrElse(a.title, Empty))
        description == toLowerCase(OrElse(a.description, Empty))
        searchTerm  == toLowerCase(kw)
        hoursAgo    == DiffHours(clock, Moment(a.publishedAt, clock))
        sum         == (IF Includes(title, searchTerm) THEN 3 ELSE 0)
                       + (IF Includes(description, searchTerm) THEN 2 ELSE 0)
                       + RecencyBonus(hoursAgo)
                       + (IF TrustedSource(a) THEN 2 ELSE 0)
    IN Min(sum, 10)

-----------------------------------------------------------------------------
(* fetchNewsFromAPI and getMockNewsData *)

\* an article as the news source returns it; sourceName and sourceUrl are
\* article.source?.name and article.source?.url (Null when absent)
RawArticle(title, description, url, urlToImage, publishedAt, sourceName) ==
    [title |-> title, description |-> description, url |-> url,
     urlToImage |-> urlToImage, publishedAt |-> publishedAt,
     sourceName |-> sourceName, sourceUrl |-> Null]

\* placeholders that do not mention the query
getMockNewsDataGeneric(query, clock) ==
    << RawArticle(sMockTitle1a \o sMockTitle1b, sMockDesc1a \o sMockDesc1b,
                  sMockUrl1, sMockImage1, PublishedAt("iso", clock),
                  sBusinessTimes) >>

getMockNewsData(query, clock) ==
    << RawArticle(sMockTitle1a \o query \o sMockTitle1b,
                  sMockDesc1a \o query \o sMockDesc1b,
                  sMockUrl1, sMockImage1,
                  PublishedAt("iso", clock), sBusinessTimes),
       RawArticle(query \o sMockTitle2b,
                  sMockDesc2a \o query \o sMockDesc2b,
                  sMockUrl2, sMockImage2,
                  PublishedAt("iso", clock - 1), sEconomicDaily),
       RawArticle(sMockTitle3a \o query \o sMockTitle3b,
                  sMockDesc3a \o query \o sMockDesc3b,
                  sMockUrl3, sMockImage3,
                  PublishedAt("iso", clock - 2), sIndustryWeekly) >>

\* how axios.get settles: "ok" with response.data.articles, "no_articles" (a
\* 2xx answer without an articles list), or rejected by timeout, a non-2xx
\* status or a network error
OutcomeKinds == {"ok", "no_articles", "timeout", "http_error", "network_error"}

Failed(outcome) == outcome.kind \in {"timeout", "http_error", "network_error"}

\* try { return response.data.articles || [] } catch { return getMockNewsData(query) }
fetchNewsFromAPI(query, pageSize, outcome, clock) ==
    IF Failed(outcome) THEN getMockNewsData(query, clock)
    ELSE IF outcome.kind = "ok" THEN outcome.articles
    ELSE <<>>

-----------------------------------------------------------------------------
(* CAREER_INDUSTRIES *)

\* the own properties of the object literal, in source order: each key with
\* its list of industry keywords
CAREER_INDUSTRIES ==
    <<
    [key |->
        <<"t","e","c","h","n","o","l","o","g","y">>,
     industries |-> <<
        <<"t","e","c","h","n","o","l","o","g","y">>,
        <<"s","t","a","r","t","u","p","s">>,
        <<"a","r","t","i","f","i","c","i","a","l"," ","i","n","t","e","l","l","i","g","e","n","c","e">>,
        <<"c","y","b","e","r","s","e","c","u","r","i","t","y">>
     >>],
    [key |->
        <<"f","i","n","a","n","c","e">>,
     industries |-> <<
        <<"f","i","n","a","n","c","e">>,
        <<"b","a","n","k","i","n","g">>,
        <<"c","r","y","p","t","o","c","u","r","r","e","n","c","y">>,
        <<"f","i","n","t","e","c","h">>,
        <<"s","t","o","c","k"," ","m","a","r","k","e","t">>
     >>],
    [key |->
        <<"h","e","a","l","t","h","c","a","r","e">>,
     industries |-> <<
        <<"h","e","a","l","t","h","c","a","r","e">>,
        <<"m","e","d","i","c","a","l">>,
        <<"p","h","a","r","m","a","c","e","u","t","i","c","a","l">>,
        <<"b","i","o","t","e","c","h">>
     >>],
    [key |->
        <<"r","e","a","l","_","e","s","t","a","t","e">>,
     industries |-> <<
        <<"r","e","a","l"," ","e","s","t","a","t","e">>,
        <<"p","r","o","p","e","r","t","y">>,
        <<"c","o","n","s","t","r","u","c","t","i","o","n">>,
        <<"h","o","u","s","i","n","g"," ","m","a","r","k","e","t">>
     >>],
    [key |->
        <<"r","e","t","a","i","l">>,
     industries |-> <<
        <<"r","e","t","a","i","l">>,
        <<"e","-","c","o","m","m","e","r","c","e">>,
        <<"c","o","n","s","u","m","e","r"," ","g","o","o","d","s">>,
        <<"f","a","s","h","i","o","n">>
     >>],
    [key |->
        <<"e","n","e","r","g","y">>,
     industries |-> <<
        <<"e","n","e","r","g","y">>,
        <<"o","i","l">>,
        <<"r","e","n","e","w","a","b","l","e"," ","e","n","e","r","g","y">>,
        <<"u","t","i","l","i","t","i","e","s">>
     >>],
    [key |->
        <<"m","a","n","u","f","a","c","t","u","r","i","n","g">>,
     industries |-> <<
        <<"m","a","n","u","f","a","c","t","u","r","i","n","g">>,
        <<"a","u","t","o","m","o","t","i","v","e">>,
        <<"a","e","r","o","s","p","a","c","e">>,
        <<"i","n","d","u","s","t","r","i","a","l">>
     >>],
    [key |->
        <<"c","o","n","s","u","l","t","i","n","g">>,
     industries |-> <<
        <<"c","o","n","s","u","l","t","i","n","g">>,
        <<"b","u","s","i","n","e","s","s"," ","s","e","r","v","i","c","e","s">>,
        <<"m","a","n","a","g","e","m","e","n","t">>
     >>],
    [key |->
        <<"l","e","g","a","l">>,
     industries |-> <<
        <<"l","e","g","a","l">>,
        <<"l","a","w">>,
        <<"c","o","m","p","l","i","a","n","c","e">>,
        <<"r","e","g","u","l","a","t","o","r","y">>
     >>],
    [key |->
        <<"m","a","r","k","e","t","i","n","g">>,
     industries |-> <<
        <<"m","a","r","k","e","t","i","n","g">>,
        <<"a","d","v","e","r","t","i","s","i","n","g">>,
        <<"d","i","g","i","t","a","l"," ","m","a","r","k","e","t","i","n","g">>,
        <<"s","o","c","i","a","l"," ","m","e","d","i","a">>
     >>]
    >>

\* CAREER_INDUSTRIES is an object literal: a lookup by a name that is no own
\* property finds the properties every object inherits from Object.prototype
\* (functions, and the prototype object itself), all truthy and none an array
ObjectPrototypeKeys ==
    {<<"c","o","n","s","t","r","u","c","t","o","r">>,
     <<"t","o","S","t","r","i","n","g">>,
     <<"v","a","l","u","e","O","f">>,
     <<"h","a","s","O","w","n","P","r","o","p","e","r","t","y">>,
     <<"i","s","P","r","o","t","o","t","y","p","e","O","f">>,
     <<"p","r","o","p","e","r","t","y","I","s","E","n","u","m","e","r","a","b","l","e">>,
     <<"t","o","L","o","c","a","l","e","S","t","r","i","n","g">>,
     <<"_","_","p","r","o","t","o","_","_">>,
     <<"_","_","d","e","f","i","n","e","G","e","t","t","e","r","_","_">>,
     <<"_","_","d","e","f","i","n","e","S","e","t","t","e","r","_","_">>,
     <<"_","_","l","o","o","k","u","p","G","e","t","t","e","r","_","_">>,
     <<"_","_","l","o","o","k","u","p","S","e","t","t","e","r","_","_">>}

-----------------------------------------------------------------------------
(* Aggregation engine: getLocationBasedNews, getIndustryNews,              *)
(* getPersonalizedNews                                                     *)

GroupNames == {"location", "industry", "global"}

\* CAREER_INDUSTRIES[careerField]: an own property (an array), a property
\* inherited from Object.prototype, or undefined
CareerLookup(careerField) ==
    IF \E i \in DOMAIN CAREER_INDUSTRIES : CAREER_INDUSTRIES[i].key = careerField
    THEN [kind |-> "array",
          items |-> CAREER_INDUSTRIES[
                        CHOOSE i \in DOMAIN CAREER_INDUSTRIES :
                            CAREER_INDUSTRIES[i].key = careerField].industries]
    ELSE IF careerField \in ObjectPrototypeKeys
         THEN [kind |-> "inherited", items |-> <<>>]
         ELSE [kind |-> "undefined", items |-> <<>>]

\* const industries = CAREER_INDUSTRIES[careerField] || [careerField]
Industries(careerField) ==
    LET found == CareerLookup(careerField)
    IN IF found.kind = "undefined"
       THEN [kind |-> "array", items |-> <<careerField>>]
       ELSE found

\* the two tests of getLocationType in the other order
getLocationTypeEconomyFirst(query) ==
    IF Includes(query, sEconomy) THEN "regional"
    ELSE IF Includes(query, sBusiness) THEN "local"
    ELSE "national"

getLocationType(query) ==
    IF Includes(query, sBusiness) THEN "local"
    ELSE IF Includes(query, sEconomy) THEN "regional"
    ELSE "national"

getLocationValue(query, city, state, country) ==
    IF Includes(query, city) THEN city
    ELSE IF Includes(query, state) THEN state
    ELSE country

\* the three template queries of getLocationBasedNews
LocationQueries(city, state, country) ==
    << city \o sSpBusiness, state \o sSpEconomy, country \o sSpBusinessNews >>

\* industries.slice(0, 2)
IndustryKeywords(items) == Slice(items, 2)

\* `${industry} business news`
IndustryQuery(industry) == industry \o sSpBusinessNews

\* uuidv4(): a fresh identifier, never equal to another one. The model names
\* it after the place that created it: the group, the query and the position
\* of the article in the query's answer.
NewId(g, q, i) == <<g, q, i>>

ProcessLocation(a, id, query, p, clock) ==
    [id |-> id,
     title |-> sanitizeText(a.title),
     description |-> sanitizeText(a.description),
     url |-> a.url,
     image_url |-> a.urlToImage,
     published_at |-> a.publishedAt,
     source_name |-> OrElse(a.sourceName, sUnknown),
     source_url |-> OrElse(a.sourceUrl, Empty),
     category |-> "business",
     location_type |-> getLocationType(query),
     location_value |-> getLocationValue(query, p.city, p.state, p.country),
     relevance_score |-> calculateRelevanceScore(a, query, clock)]

ProcessIndustry(a, id, industry, clock) ==
    [id |-> id,
     title |-> sanitizeText(a.title),
     description |-> sanitizeText(a.description),
     url |-> a.url,
     image_url |-> a.urlToImage,
     published_at |-> a.publishedAt,
     source_name |-> OrElse(a.sourceName, sUnknown),
     source_url |-> OrElse(a.sourceUrl, Empty),
     category |-> "industry",
     industry |-> industry,
     relevance_score |-> calculateRelevanceScore(a, industry, clock)]

ProcessGlobal(a, id, clock) ==
    [id |-> id,
     title |-> sanitizeText(a.title),
     description |-> sanitizeText(a.description),
     url |-> a.url,
     image_url |-> a.urlToImage,
     published_at |-> a.publishedAt,
     source_name |-> OrElse(a.sourceName, sUnknown),
     source_url |-> OrElse(a.sourceUrl, Empty),
     category |-> "global",
     location_type |-> "global",
     relevance_score |-> calculateRelevanceScore(a, sBusiness, clock)]

\* One member of the Promise.all of getPersonalizedNews.
\*   status        "idle", "pending" (awaiting the answer to queries[inflight]),
\*                 "fulfilled" or "rejected"
\*   queries       the queries the member sends, in order
\*   keywords      for the industry group, the industry of each query
\*   inflight      index of the query awaiting its answer, 0 when none
\*   allNews       the articles collected so far
\*   failed        for each answered query, whether the upstream call failed
\*   value         what the member's promise is fulfilled with
\*   startedAfter  the members that had already settled when this one started
IdleGroup ==
    [status |-> "idle", queries |-> <<>>, keywords |-> <<>>, inflight |-> 0,
     allNews |-> <<>>, failed |-> <<>>, value |-> <<>>, startedAfter |-> {}]

SettledGroups(gs) ==
    {g \in GroupNames : gs[g].status \in {"fulfilled", "rejected"}}

\* a member that sends its first query, or is fulfilled at once with nothing
\* to send
Started(gs, queries, keywords) ==
    [IdleGroup EXCEPT
        !.status = IF queries = <<>> THEN "fulfilled" ELSE "pending",
        !.queries = queries,
        !.keywords = keywords,
        !.inflight = IF queries = <<>> THEN 0 ELSE 1,
        !.startedAfter = SettledGroups(gs)]

\* this.getLocationBasedNews(city, state, country, 5), up to its first await
StartLocation(gs, p) ==
    [gs EXCEPT !["location"] =
        Started(gs, LocationQueries(p.city, p.state, p.country), <<>>)]

\* this.getIndustryNews(career_field, 5), up to its first await; the call of
\* industries.slice throws when the lookup found an inherited property, and
\* the async function returns an already rejected promise
StartIndustry(gs, p) ==
    LET ind == Industries(p.career_field)
        kws == IndustryKeywords(ind.items)
    IN [gs EXCEPT !["industry"] =
          IF ind.kind = "inherited"
          THEN [IdleGroup EXCEPT !.status = "rejected",
                                 !.startedAfter = SettledGroups(gs)]
          ELSE Started(gs, [i \in DOMAIN kws |-> IndustryQuery(kws[i])], kws)]

\* this.fetchNewsFromAPI('global business economy', 5), up to its await
StartGlobal(gs) ==
    [gs EXCEPT !["global"] = Started(gs, <<sGlobalBusinessEconomy>>, <<>>)]

\* the articles a member adds for the answer to its query number q
Processed(g, G, q, articles, p, clock) ==
    <<>> \o [i \in DOMAIN articles |->
        CASE g = "location" ->
                ProcessLocation(articles[i], NewId(g, q, i), G.queries[q], p, clock)
          [] g = "industry" ->
                ProcessIndustry(articles[i], NewId(g, q, i), G.keywords[q], clock)
          [] OTHER -> articles[i]]

\* a member that returns everything it collected
GroupValueWhole(g, allNews, limit) == allNews

\* what the member returns once its last query is answered
GroupValue(g, allNews, limit) ==
    CASE g = "location" -> Slice(allNews, limit * 3)
      [] g = "industry" -> Slice(allNews, limit)
      [] OTHER          -> allNews

\* a member that sends a failed query again
RespondRetrying(g, G, p, outcome, clock, limit) ==
    IF Failed(outcome)
    THEN [group |-> G, issue |-> G.inflight]
    ELSE LET q   == G.inflight
             all == G.allNews \o
                    Processed(g, G, q,
                              fetchNewsFromAPI(G.queries[q], limit, outcome, clock),
                              p, clock)
         IN IF q < Len(G.queries)
            THEN [group |-> [G EXCEPT !.allNews = all, !.inflight = q + 1,
                                      !.failed = Append(@, FALSE)],
                  issue |-> q + 1]
            ELSE [group |-> [G EXCEPT !.allNews = all, !.inflight = 0,
                                      !.failed = Append(@, FALSE),
                                      !.status = "fulfilled",
                                      !.value = GroupValue(g, all, limit)],
                  issue |-> 0]

\* The continuation of `await this.fetchNewsFromAPI(query, limit)` in member g:
\* the answer (or the placeholders) is processed and pushed, then the next
\* query of the loop is sent, or the member returns. issue is the index of
\* the query sent by this step, 0 when none is.
Respond(g, G, p, outcome, clock, limit) ==
    LET q   == G.inflight
        all == G.allNews \o
               Processed(g, G, q,
                         fetchNewsFromAPI(G.queries[q], limit, outcome, clock),
                         p, clock)
    IN IF q < Len(G.queries)
       THEN [group |-> [G EXCEPT !.allNews = all, !.inflight = q + 1,
                                 !.failed = Append(@, Failed(outcome))],
             issue |-> q + 1]
       ELSE [group |-> [G EXCEPT !.allNews = all, !.inflight = 0,
                                 !.failed = Append(@, Failed(outcome)),
                                 !.status = "fulfilled",
                                 !.value = GroupValue(g, all, limit)],
             issue |-> 0]

\* the object getPersonalizedNews returns
Buckets(locationNews, industryNews, globalNews, clock) ==
    LET processedGlobalNews ==
            <<>> \o [i \in DOMAIN globalNews |->
                ProcessGlobal(globalNews[i], NewId("global", 1, i), clock)]
    IN [local    |-> Slice(SelectSeq(locationNews,
                                     LAMBDA n : n.location_type = "local"), 5),
        regional |-> Slice(SelectSeq(locationNews,
                                     LAMBDA n : n.location_type = "regional"), 5),
        national |-> Slice(SelectSeq(locationNews,
                                     LAMBDA n : n.location_type = "national"), 5),
        industry |-> Slice(industryNews, 5),
        global   |-> Slice(processedGlobalNews, 5)]

NoResult == [returned |-> FALSE]

NotLabelled == [done |-> FALSE]

NoCalls == [g \in GroupNames |-> <<>>]

NoneSettled == [g \in GroupNames |-> <<>>]

\* members that send all their queries when they start
FirstCallsAllAtOnce(gs) ==
    [g \in GroupNames |->
        IF gs[g].inflight # 0
        THEN <<>> \o [i \in DOMAIN gs[g].queries |->
                         [idx |-> i, query |-> gs[g].queries[i]]]
        ELSE <<>>]

\* the call record of the query a started member has just sent
FirstCalls(gs) ==
    [g \in GroupNames |->
        IF gs[g].inflight # 0
        THEN << [idx |-> 1, query |-> gs[g].queries[1]] >>
        ELSE <<>>]

\* the array literal handed to Promise.all: the three calls are made one after
\* the other, each running up to its first await
StartAll(gs, p) == StartGlobal(StartIndustry(StartLocation(gs, p), p))

\* an await that resumes with the first member that is fulfilled, as
\* Promise.race would
AwaitAllRace(gs) ==
    IF \E g \in GroupNames : gs[g].status = "rejected" THEN "failed"
    ELSE IF \E g \in GroupNames : gs[g].status = "fulfilled" THEN "done"
    ELSE "running"

\* what the await of Promise.all makes of the members' states: it throws as
\* soon as a member is rejected, resumes when all are fulfilled, waits otherwise
AwaitAll(gs) ==
    IF \E g \in GroupNames : gs[g].status = "rejected" THEN "failed"
    ELSE IF \A g \in GroupNames : gs[g].status = "fulfilled" THEN "done"
    ELSE "running"

\* getPersonalizedNews(userProfile) is called: the synchronous part of the
\* function, and the rejection of Promise.all when a member is rejected at once
Request(p) ==
    /\ pc = "idle"
    /\ profile' = p
    /\ groups' = StartAll(groups, p)
    /\ calls' = FirstCalls(groups')
    /\ pc' = AwaitAll(groups')
    /\ result' = IF pc' = "done"
                 THEN Buckets(groups'["location"].value, groups'["industry"].value,
                              groups'["global"].value, now)
                 ELSE NoResult
    /\ settled' = NoneSettled
    /\ UNCHANGED <<labelled, lastFetch, now, cacheVars, textVars, scoreVars, apiVars>>

\* a request that returns without the value of the member that settled last
SettleDroppingLast(g, outcome) ==
    /\ groups[g].status = "pending"
    /\ settled' = [settled EXCEPT ![g] = Append(@, outcome)]
    /\ LET r == Respond(g, groups[g], profile, outcome, now, 5)
       IN /\ groups' = [groups EXCEPT ![g] = r.group]
          /\ calls' = IF r.issue # 0
                      THEN [calls EXCEPT ![g] =
                               Append(@, [idx |-> r.issue,
                                          query |-> r.group.queries[r.issue]])]
                      ELSE calls
    /\ IF pc = "running" /\ AwaitAll(groups') = "done"
       THEN /\ pc' = "done"
            /\ \E gs \in {[groups' EXCEPT ![g].value = <<>>]} :
                   result' = Buckets(gs["location"].value, gs["industry"].value,
                                     gs["global"].value, now)
       ELSE UNCHANGED <<pc, result>>
    /\ UNCHANGED <<profile, labelled, lastFetch, now, cacheVars, textVars, scoreVars, apiVars>>

\* the outbound call of member g settles with `outcome`; the member continues,
\* and getPersonalizedNews resumes when this was the last member to return.
\* A member keeps running after Promise.all has rejected: nothing cancels it.
Settle(g, outcome) ==
    /\ groups[g].status = "pending"
    /\ settled' = [settled EXCEPT ![g] = Append(@, outcome)]
    /\ LET r == Respond(g, groups[g], profile, outcome, now, 5)
       IN /\ groups' = [groups EXCEPT ![g] = r.group]
          /\ calls' = IF r.issue # 0
                      THEN [calls EXCEPT ![g] =
                               Append(@, [idx |-> r.issue,
                                          query |-> r.group.queries[r.issue]])]
                      ELSE calls
    /\ IF pc = "running" /\ AwaitAll(groups') = "done"
       THEN /\ pc' = "done"
            /\ result' = Buckets(groups'["location"].value,
                                 groups'["industry"].value,
                                 groups'["global"].value, now)
       ELSE UNCHANGED <<pc, result>>
    /\ UNCHANGED <<profile, labelled, lastFetch, now, cacheVars, textVars, scoreVars, apiVars>>

-----------------------------------------------------------------------------
(* Article cache: the news_articles table, saveArticleToCache and          *)
(* refreshNewsCache                                                        *)

\* retention of a cache row, hours: moment().subtract(6, 'hours')
RETENTION_HOURS == 6

\* A 'YYYY-MM-DD HH:MM:SS' text for the instant t (hours since the epoch):
\* its date and its hour of day
Timestamp(t) == [date |-> t \div 24, hour |-> t % 24]

\* SQLite's CURRENT_TIMESTAMP: the current instant as UTC text
CURRENT_TIMESTAMP(clock) == Timestamp(clock)

\* moment(t).format('YYYY-MM-DD HH:mm:ss'): the instant as text in the
\* server's local time
FormatLocal(t, offset) == Timestamp(t + offset)

\* a < b for two timestamp texts of the same layout: SQLite compares them as
\* text, so the date decides and then the hour
TimestampLess(a, b) ==
    a.date < b.date \/ (a.date = b.date /\ a.hour < b.hour)

\* the instant a UTC timestamp text stands for
InstantOf(ts) == ts.date * 24 + ts.hour

\* SQL NULL in a column that holds one of the engine's labels
NullLabel == "null"

\* article.f || null, for a label field the article may not have
LabelOrNull(a, f) == IF f \in DOMAIN a THEN a[f] ELSE NullLabel

\* article.f || null, for a text field the article may not have
TextOrNull(a, f) == IF f \in DOMAIN a THEN OrElse(a[f], Null) ELSE Null

\* the row INSERT OR REPLACE writes: the thirteen bound columns, and
\* created_at, which the statement does not name, from its column default
RowOf(a, clock) ==
    [id |-> a.id,
     title |-> a.title,
     description |-> a.description,
     url |-> a.url,
     image_url |-> a.image_url,
     published_at |-> a.published_at,
     source_name |-> a.source_name,
     source_url |-> a.source_url,
     category |-> a.category,
     location_type |-> LabelOrNull(a, "location_type"),
     location_value |-> TextOrNull(a, "location_value"),
     industry |-> TextOrNull(a, "industry"),
     relevance_score |-> a.relevance_score,
     created_at |-> CURRENT_TIMESTAMP(clock)]

\* title TEXT NOT NULL, url TEXT NOT NULL
ConstraintsHold(row) == row.title # Null /\ row.url # Null

\* INSERT OR REPLACE INTO news_articles: a row with the same primary key is
\* deleted, then the new row is inserted
InsertOrReplace(rows, row) == {r \in rows : r.id # row.id} \cup {row}

NoRefresh == [set |-> FALSE, at |-> 0]

NoOp == [name |-> "none", ok |-> TRUE, id |-> NewId("none", 0, 0)]

\* saveArticleToCache(article); dbOk: whether the database runs the statement
\* (an error of the statement is logged and swallowed)
saveArticleToCache(a, dbOk) ==
    LET row == RowOf(a, now)
        ok  == dbOk /\ ConstraintsHold(row)
    IN /\ news_articles' = IF ok THEN InsertOrReplace(news_articles, row)
                           ELSE news_articles
       /\ op' = [name |-> "save", ok |-> ok, id |-> a.id]
       /\ UNCHANGED <<tzOffset, lastRefresh, now>>
       /\ UNCHANGED <<engineVars, lastFetch, textVars, scoreVars, apiVars>>

\* a refresh that records its time and deletes no row
refreshNewsCacheKeepingRows(dbOk) ==
    /\ lastRefresh' = IF dbOk THEN [set |-> TRUE, at |-> now] ELSE lastRefresh
    /\ op' = [name |-> "refresh", ok |-> dbOk, id |-> NewId("none", 0, 0)]
    /\ UNCHANGED <<tzOffset, now, news_articles>>
    /\ UNCHANGED <<engineVars, lastFetch, textVars, scoreVars, apiVars>>

\* refreshNewsCache(); dbOk: whether the DELETE succeeds (its error is logged
\* and swallowed, and lastRefresh is then not set)
refreshNewsCache(dbOk) ==
    LET sixHoursAgo == FormatLocal(now - RETENTION_HOURS, tzOffset)
    IN /\ news_articles' =
              IF dbOk
              THEN {r \in news_articles : ~TimestampLess(r.created_at, sixHoursAgo)}
              ELSE news_articles
       /\ lastRefresh' = IF dbOk THEN [set |-> TRUE, at |-> now] ELSE lastRefresh
       /\ op' = [name |-> "refresh", ok |-> dbOk, id |-> NewId("none", 0, 0)]
       /\ UNCHANGED <<tzOffset, now>>
       /\ UNCHANGED <<engineVars, lastFetch, textVars, scoreVars, apiVars>>

-----------------------------------------------------------------------------
(* The engine's functions as their callers see them: called with their     *)
(* arguments, and with the outcome of each outbound call they will make    *)

\* member g of the engine run to its end: outs[i] is the outcome of the call
\* for its i-th query
RECURSIVE RunMember(_, _, _, _, _, _)
RunMember(g, G, p, outs, clock, limit) ==
    IF G.status # "pending" THEN G
    ELSE RunMember(g, Respond(g, G, p, outs[G.inflight], clock, limit).group,
                   p, outs, clock, limit)

NoGroups == [g \in GroupNames |-> IdleGroup]

\* await getLocationBasedNews(city, state, country, limit)
getLocationBasedNews(city, state, country, limit, outs, clock) ==
    LET p == [city |-> city, state |-> state, country |-> country,
              career_field |-> Empty]
    IN RunMember("location", StartLocation(NoGroups, p)["location"],
                 p, outs, clock, limit).value

\* await getIndustryNews(careerField, limit): its value, or thrown when the
\* call of industries.slice throws
getIndustryNews(careerField, limit, outs, clock) ==
    LET p == [city |-> Empty, state |-> Empty, country |-> Empty,
              career_field |-> careerField]
        G == RunMember("industry", StartIndustry(NoGroups, p)["industry"],
                       p, outs, clock, limit)
    IN [thrown |-> G.status = "rejected", value |-> G.value]

\* a fan-out that takes a rejected member for an empty list
getPersonalizedNewsSettled(userProfile, outs, clock) ==
    LET locationNews == getLocationBasedNews(userProfile.city, userProfile.state,
                                             userProfile.country, 5,
                                             outs["location"], clock)
        industryNews == getIndustryNews(userProfile.career_field, 5,
                                        outs["industry"], clock)
        globalNews   == fetchNewsFromAPI(sGlobalBusinessEconomy, 5,
                                         outs["global"][1], clock)
    IN [thrown |-> FALSE,
        news |-> Buckets(locationNews, industryNews.value, globalNews, clock)]

\* await getPersonalizedNews(userProfile): the buckets, or thrown ('Failed to
\* fetch personalized news') when a member of Promise.all is rejected
getPersonalizedNews(userProfile, outs, clock) ==
    LET locationNews == getLocationBasedNews(userProfile.city, userProfile.state,
                                             userProfile.country, 5,
                                             outs["location"], clock)
        industryNews == getIndustryNews(userProfile.career_field, 5,
                                        outs["industry"], clock)
        globalNews   == fetchNewsFromAPI(sGlobalBusinessEconomy, 5,
                                         outs["global"][1], clock)
    IN IF industryNews.thrown
       THEN [thrown |-> TRUE, news |-> NoResult]
       ELSE [thrown |-> FALSE,
             news |-> Buckets(locationNews, industryNews.value, globalNews, clock)]

-----------------------------------------------------------------------------
(* routes/news.js: GET /personalized and GET /category/:category, after    *)
(* authenticateToken has set req.userId                                    *)

sSanFrancisco ==
    <<"S","a","n"," ","F","r","a","n","c","i","s","c","o">>

sUS ==
    <<"U","S">>

\* getQuery('SELECT ... FROM users WHERE id = ?'): the row, when there is one
HasUser(id) == \E u \in users : u.id = id

UserRow(id) == CHOOSE u \in users : u.id = id

\* uuidv4() in a later request never repeats an identifier of an earlier one:
\* the identifiers of a request carry its serial number
Fresh(articles, serial) ==
    <<>> \o [i \in DOMAIN articles |->
                [articles[i] EXCEPT !.id = Append(@, serial)]]

FreshBuckets(news, serial) ==
    [local    |-> Fresh(news["local"], serial),
     regional |-> Fresh(news["regional"], serial),
     national |-> Fresh(news["national"], serial),
     industry |-> Fresh(news["industry"], serial),
     global   |-> Fresh(news["global"], serial)]

\* const userProfile = {...}: the row with the default of each empty field
UserProfileOf(user) ==
    [career_field |-> user.career_field,
     city    |-> OrElse(user.city, sSanFrancisco),
     state   |-> OrElse(user.state, sCA),
     country |-> OrElse(user.country, sUS)]

\* [...local, ...regional, ...national, ...industry, ...global]
AllArticles(news) ==
    news["local"] \o news["regional"] \o news["national"]
    \o news["industry"] \o news["global"]

\* the table after saveArticleToCache(a): unchanged when the statement fails
\* (the database refuses it, or a NOT NULL column is null)
RowsAfterSave(rows, a, clock, dbOk) ==
    IF dbOk /\ ConstraintsHold(RowOf(a, clock))
    THEN InsertOrReplace(rows, RowOf(a, clock))
    ELSE rows

\* a loop of saves that ends at the first statement the database refuses
RECURSIVE RowsAfterSavesAborting(_, _, _, _, _)
RowsAfterSavesAborting(rows, articles, i, clock, failAt) ==
    IF i > Len(articles) \/ i = failAt THEN rows
    ELSE RowsAfterSavesAborting(RowsAfterSave(rows, articles[i], clock, TRUE),
                                articles, i + 1, clock, failAt)

\* for (const article of allArticles) await saveArticleToCache(article);
\* failAt is the position of the article whose statement the database
\* refuses, 0 when it refuses none
RECURSIVE RowsAfterSaves(_, _, _, _, _)
RowsAfterSaves(rows, articles, i, clock, failAt) ==
    IF i > Len(articles) THEN rows
    ELSE RowsAfterSaves(RowsAfterSave(rows, articles[i], clock, i # failAt),
                        articles, i + 1, clock, failAt)

\* the last request: its number, its route, req.userId, and dbFault, the
\* position of the cache write the database refused during it (0: none)
NoRequest == [serial |-> 0, route |-> "none", userId |-> "none", dbFault |-> 0]

NoResponse == [status |-> 0]

NoEngineCall == [called |-> FALSE, city |-> Empty, state |-> Empty,
                 country |-> Empty]

LocationCall(city, state, country) ==
    [called |-> TRUE, city |-> city, state |-> state, country |-> country]

\* what the handler of GET /personalized does for a user row: the call it
\* makes, its response and the cache table it leaves
PersonalizedOutcome(user, outs, failAt, serial, rows, clock) ==
    LET userProfile == UserProfileOf(user)
        call == LocationCall(userProfile.city, userProfile.state,
                             userProfile.country)
        r == getPersonalizedNews(userProfile, outs, clock)
    IN IF r.thrown
       THEN [call |-> call, rows |-> rows,
             res |-> [status |-> 500,
                      error |-> "Failed to fetch personalized news"]]
       ELSE LET personalizedNews == FreshBuckets(r.news, serial)
            IN [call |-> call,
                rows |-> RowsAfterSaves(rows, AllArticles(personalizedNews),
                                        1, clock, failAt),
                res |-> [status |-> 200, success |-> TRUE,
                         news |-> personalizedNews]]

\* router.get('/personalized', authenticateToken, ...)
GetPersonalized(userId, outs, failAt) ==
    /\ req' = [serial |-> req.serial + 1, route |-> "GET /personalized",
               userId |-> userId, dbFault |-> failAt]
    /\ IF ~HasUser(userId)
       THEN /\ res' = [status |-> 404, error |-> "User not found"]
            /\ UNCHANGED <<news_articles, engineCall>>
       ELSE \E out \in {PersonalizedOutcome(UserRow(userId), outs, failAt,
                                            req.serial + 1, news_articles, now)} :
                /\ engineCall' = out.call
                /\ news_articles' = out.rows
                /\ res' = out.res
    /\ UNCHANGED <<tzOffset, lastRefresh, op, now, epoch, tableVars, removedTokens, flightVars>>
    /\ UNCHANGED <<engineVars, lastFetch, textVars, scoreVars>>

validCategories == {"local", "regional", "national", "industry", "global"}

\* the articles GET /category/global makes of the answer
GlobalCategoryArticle(a, id) ==
    [id |-> id,
     title |-> sanitizeText(a.title),
     description |-> sanitizeText(a.description),
     url |-> a.url,
     image_url |-> a.urlToImage,
     published_at |-> a.publishedAt,
     source_name |-> OrElse(a.sourceName, sUnknown),
     category |-> "global"]

\* what the handler of GET /category/:category does for a user row
CategoryOutcome(user, category, limit, outs, serial, clock) ==
    CASE category = "industry" ->
            LET r == getIndustryNews(user.career_field, limit,
                                     outs["industry"], clock)
            IN [called |-> FALSE,
                res |-> IF r.thrown
                        THEN [status |-> 500,
                              error |-> "Failed to fetch category news"]
                        ELSE [status |-> 200, success |-> TRUE,
                              category |-> category,
                              articles |-> Fresh(r.value, serial)]]
      [] category = "global" ->
            LET globalArticles ==
                    fetchNewsFromAPI(sGlobalBusinessEconomy, limit,
                                     outs["global"][1], clock)
            IN [called |-> FALSE,
                res |-> [status |-> 200, success |-> TRUE,
                         category |-> category,
                         articles |->
                             Fresh(<<>> \o [i \in DOMAIN globalArticles |->
                                       GlobalCategoryArticle(globalArticles[i],
                                                             NewId("global", 1, i))],
                                   serial)]]
      [] OTHER ->
            LET locationNews ==
                    getLocationBasedNews(user.city, user.state, user.country,
                                         limit, outs["location"], clock)
            IN [called |-> TRUE,
                res |-> [status |-> 200, success |-> TRUE,
                         category |-> category,
                         articles |->
                             Fresh(SelectSeq(locationNews,
                                       LAMBDA n : n.location_type = category),
                                   serial)]]

\* router.get('/category/:category', authenticateToken, ...); limit is
\* parseInt(req.query.limit), 10 when the query has none
GetCategory(userId, category, limit, outs) ==
    /\ req' = [serial |-> req.serial + 1, route |-> "GET /category",
               userId |-> userId, dbFault |-> 0]
    /\ IF category \notin validCategories
       THEN /\ res' = [status |-> 400, error |-> "Invalid category"]
            /\ UNCHANGED engineCall
       ELSE IF ~HasUser(userId)
       THEN /\ res' = [status |-> 404, error |-> "User not found"]
            /\ UNCHANGED engineCall
       ELSE \E out \in {CategoryOutcome(UserRow(userId), category, limit, outs,
                                         req.serial + 1, now)} :
                /\ res' = out.res
                /\ engineCall' = IF out.called
                                 THEN LocationCall(UserRow(userId).city,
                                                   UserRow(userId).state,
                                                   UserRow(userId).country)
                                 ELSE engineCall
    /\ UNCHANGED <<cacheVars, now, epoch, tableVars, removedTokens, flightVars>>
    /\ UNCHANGED <<engineVars, lastFetch, textVars, scoreVars>>

-----------------------------------------------------------------------------
(* routes/auth.js, routes/user.js, routes/news.js: tokens, sessions and    *)
(* the authenticated endpoints. `epoch` counts seconds; a handler runs in  *)
(* one step.                                                               *)

\* 7 * 24 * 60 * 60 seconds: expiresIn '7d' and the expires_at of a session
SESSION_SECONDS == 604800

\* the seconds of one calendar date of an ISO or SQLite timestamp text
SECONDS_PER_DAY == 86400

\* jwt.sign({ userId, email }, JWT_SECRET, { expiresIn }): HS256 is a
\* function of the payload, and the payload is the user and iat, the second
\* of signing; two tokens signed for one user in one second are equal
jwtSign(userId, iat) == [userId |-> userId, iat |-> iat, signed |-> TRUE]

\* a request without an Authorization header
NoToken == [userId |-> "none", iat |-> 0, signed |-> FALSE]

\* jwt.verify(token, JWT_SECRET): the signature, then exp = iat + 7d
jwtVerify(token, clock) ==
    /\ token.signed
    /\ clock < token.iat + SESSION_SECONDS

DateOf(seconds) == seconds \div SECONDS_PER_DAY

\* expires_at > datetime('now'): expires_at is the text of toISOString()
\* ('2026-01-08T10:00:00.000Z') and datetime('now') is '2026-01-08 10:00:00';
\* the texts are compared as texts, the dates first, and on one date 'T' is
\* greater than ' '
ExpiresAfterNow(expires_at, clock) == DateOf(expires_at) >= DateOf(clock)

\* expires_at < datetime("now"), of the same two texts
ExpiresBeforeNow(expires_at, clock) == DateOf(expires_at) < DateOf(clock)

\* SELECT user_id FROM user_sessions WHERE token = ? AND expires_at > datetime('now')
HasSession(sessions, token, clock) ==
    \E s \in sessions : s.token = token /\ ExpiresAfterNow(s.expires_at, clock)

Rejected(status, error) ==
    [ok |-> FALSE, userId |-> "none", res |-> [status |-> status, error |-> error]]

\* a middleware that trusts every verified token and reads no session row
authenticateTokenJwtOnly(file, token, dbOk, sessions, clock) ==
    IF token = NoToken THEN Rejected(401, "Access token required")
    ELSE IF ~jwtVerify(token, clock) THEN Rejected(401, "Invalid token")
    ELSE [ok |-> TRUE, userId |-> token.userId, res |-> NoResponse]

\* authenticateToken; dbOk: whether the session query runs. The middleware of
\* routes/auth.js answers 500 when the query throws; its copies in
\* routes/news.js and routes/user.js answer 401 to every error
authenticateToken(file, token, dbOk, sessions, clock) ==
    IF token = NoToken THEN Rejected(401, "Access token required")
    ELSE IF ~token.signed THEN Rejected(401, "Invalid token")
    ELSE IF ~jwtVerify(token, clock)
         THEN Rejected(401, IF file = "auth" THEN "Token expired" ELSE "Invalid token")
    ELSE IF ~dbOk
         THEN IF file = "auth" THEN Rejected(500, "Token verification failed")
                               ELSE Rejected(401, "Invalid token")
    ELSE IF ~HasSession(sessions, token, clock)
         THEN Rejected(401, "Invalid or expired token")
    ELSE [ok |-> TRUE, userId |-> token.userId, res |-> NoResponse]

\* the three tables a handler of this part reads and writes
Tables == [users |-> users, sessions |-> user_sessions, bookmarks |-> user_bookmarks]

\* the outcome of a handler: the tables after it, its response, and the
\* tokens of the session rows it deleted
Outcome(T, response, removed) == [tables |-> T, res |-> response, removed |-> removed]

Answer(T, status, error) == Outcome(T, [status |-> status, error |-> error], {})

UserIn(T, id) == \E u \in T.users : u.id = id

\* uuidv4(): an identifier no row of the table carries
NextId(rows) ==
    IF rows = {} THEN 1
    ELSE 1 + (CHOOSE n \in {r.id : r \in rows} : \A r \in rows : r.id <= n)

\* POST /login with the email of user `id`; pwOk is bcrypt.compare
LoginOutcome(T, id, pwOk, clock) ==
    IF ~UserIn(T, id) \/ ~pwOk THEN Answer(T, 401, "Invalid email or password")
    ELSE LET token == jwtSign(id, clock)
             kept  == {s \in T.sessions :
                          ~(s.user_id = id /\ ExpiresBeforeNow(s.expires_at, clock))}
             row   == [id |-> NextId(kept), user_id |-> id, token |-> token,
                       expires_at |-> clock + SESSION_SECONDS]
         IN  Outcome([T EXCEPT !.sessions = kept \cup {row}],
                     [status |-> 200, message |-> "Login successful",
                      token |-> token], {})

\* POST /logout: DELETE FROM user_sessions WHERE token = ?
LogoutOutcome(T, token) ==
    Outcome([T EXCEPT !.sessions = {s \in @ : s.token # token}],
            [status |-> 200, message |-> "Logged out successfully"],
            {token})

\* GET /verify
VerifyOutcome(T, userId) ==
    IF ~UserIn(T, userId) THEN Answer(T, 401, "User not found")
    ELSE Outcome(T, [status |-> 200, valid |-> TRUE, user |-> userId], {})

\* PUT /password; body is what the request carries: "missing", "short",
\* "wrong" (the current password does not match) or "valid"
PasswordOutcome(T, userId, body) ==
    IF body = "missing"
    THEN Answer(T, 400, "Current password and new password are required")
    ELSE IF body = "short"
    THEN Answer(T, 400, "New password must be at least 6 characters long")
    ELSE IF ~UserIn(T, userId) THEN Answer(T, 404, "User not found")
    ELSE IF body = "wrong" THEN Answer(T, 400, "Current password is incorrect")
    ELSE Outcome([T EXCEPT
                     !.users = {IF u.id = userId
                                THEN [u EXCEPT !.password_hash = "h1"]
                                ELSE u : u \in @},
                     !.sessions = {s \in @ : s.user_id # userId}],
                 [status |-> 200, message |-> "Password changed successfully. Please login again."],
                 {s.token : s \in {r \in T.sessions : r.user_id = userId}})

\* DELETE /account; body is "missing", "wrong" or "valid"
AccountOutcome(T, userId, body) ==
    IF body = "missing" THEN Answer(T, 400, "Password confirmation required")
    ELSE IF ~UserIn(T, userId) THEN Answer(T, 404, "User not found")
    ELSE IF body = "wrong" THEN Answer(T, 400, "Password is incorrect")
    ELSE Outcome([users     |-> {u \in T.users : u.id # userId},
                  sessions  |-> {s \in T.sessions : s.user_id # userId},
                  bookmarks |-> {b \in T.bookmarks : b.user_id # userId}],
                 [status |-> 200, message |-> "Account deleted successfully"],
                 {s.token : s \in {r \in T.sessions : r.user_id = userId}})

\* the body of POST /bookmark: articleId, and whether title and url are given
NoArticleId == <<>>

BookmarkBody(articleId) == [articleId |-> articleId, title |-> TRUE, url |-> TRUE]

\* POST /bookmark: the row carries the article's identifier and nothing else
\* of the body; no statement looks the article up in news_articles
BookmarkOutcome(T, userId, body, clock) ==
    IF body.articleId = NoArticleId \/ ~body.title \/ ~body.url
    THEN Answer(T, 400, "Article ID, title, and URL are required")
    ELSE IF \E b \in T.bookmarks :
                b.user_id = userId /\ b.article_id = body.articleId
    THEN Answer(T, 400, "Article already bookmarked")
    ELSE LET row == [id |-> NextId(T.bookmarks), user_id |-> userId,
                     article_id |-> body.articleId,
                     bookmarked_at |-> CURRENT_TIMESTAMP(clock)]
         IN  Outcome([T EXCEPT !.bookmarks = @ \cup {row}],
                     [status |-> 200, success |-> TRUE, bookmarkId |-> row.id],
                     {})

\* user_bookmarks b LEFT JOIN news_articles n ON b.article_id = n.id: the
\* columns of n are NULL when no row of the cache has the identifier
JoinedBookmark(b, rows) ==
    IF \E n \in rows : n.id = b.article_id
    THEN LET n == CHOOSE r \in rows : r.id = b.article_id
         IN [id |-> b.id, article_id |-> b.article_id,
             bookmarked_at |-> b.bookmarked_at,
             title |-> n.title, url |-> n.url, source_name |-> n.source_name]
    ELSE [id |-> b.id, article_id |-> b.article_id,
          bookmarked_at |-> b.bookmarked_at,
          title |-> Null, url |-> Null, source_name |-> Null]

\* GET /bookmarks (the rows as a set: their order is ORDER BY bookmarked_at)
BookmarksOutcome(T, userId, rows) ==
    Outcome(T, [status |-> 200, success |-> TRUE,
                bookmarks |-> {JoinedBookmark(b, rows) :
                                  b \in {x \in T.bookmarks : x.user_id = userId}}],
            {})

\* a route behind authenticateToken of `file`: the middleware answers, or
\* sets req.userId = decoded.userId and calls the handler; `handled` is the
\* outcome of the handler for that user
Authenticated(route, file, token, dbOk, handled) ==
    LET auth == authenticateToken(file, token, dbOk, user_sessions, epoch)
    IN /\ req' = [serial |-> req.serial, route |-> route, userId |-> auth.userId,
                  dbFault |-> IF dbOk THEN 0 ELSE 1, token |-> token]
       /\ \E out \in {IF auth.ok THEN handled
                                 ELSE Outcome(Tables, auth.res, {})} :
              /\ users' = out.tables.users
              /\ user_sessions' = out.tables.sessions
              /\ user_bookmarks' = out.tables.bookmarks
              /\ res' = out.res
              /\ removedTokens' = removedTokens \cup out.removed
       /\ UNCHANGED <<epoch, engineCall, now, cacheVars, flightVars>>
       /\ UNCHANGED <<engineVars, lastFetch, textVars, scoreVars>>

\* router.post('/login', ...)
PostLogin(id, pwOk) ==
    /\ req' = [serial |-> req.serial, route |-> "POST /login", userId |-> id,
               dbFault |-> 0, token |-> NoToken]
    /\ \E out \in {LoginOutcome(Tables, id, pwOk, epoch)} :
           /\ user_sessions' = out.tables.sessions
           /\ res' = out.res
    /\ UNCHANGED <<users, user_bookmarks, removedTokens, flightVars>>
    /\ UNCHANGED <<epoch, engineCall, now, cacheVars>>
    /\ UNCHANGED <<engineVars, lastFetch, textVars, scoreVars>>

\* router.post('/logout', authenticateToken, ...)
PostLogout(token, dbOk) ==
    Authenticated("POST /logout", "auth", token, dbOk,
                  LogoutOutcome(Tables, token))

\* router.get('/verify', authenticateToken, ...)
GetVerify(token, dbOk) ==
    Authenticated("GET /verify", "auth", token, dbOk,
                  VerifyOutcome(Tables, token.userId))

\* router.put('/password', authenticateToken, ...)
PutPassword(token, dbOk, body) ==
    Authenticated("PUT /password", "user", token, dbOk,
                  PasswordOutcome(Tables, token.userId, body))

\* router.delete('/account', authenticateToken, ...)
DeleteAccount(token, dbOk, body) ==
    Authenticated("DELETE /account", "user", token, dbOk,
                  AccountOutcome(Tables, token.userId, body))

\* router.post('/bookmark', authenticateToken, ...)
PostBookmark(token, dbOk, body) ==
    Authenticated("POST /bookmark", "news", token, dbOk,
                  BookmarkOutcome(Tables, token.userId, body, now))

\* router.get('/bookmarks', authenticateToken, ...)
GetBookmarks(token, dbOk) ==
    Authenticated("GET /bookmarks", "news", token, dbOk,
                  BookmarksOutcome(Tables, token.userId, news_articles))

\* a second passes
TickSecond ==
    /\ epoch < MaxEpoch
    /\ epoch' = epoch + 1
    /\ UNCHANGED <<tableVars, req, res, engineCall, removedTokens, flightVars, now, cacheVars>>
    /\ UNCHANGED <<engineVars, lastFetch, textVars, scoreVars>>

-----------------------------------------------------------------------------
(* routes/news.js, routes/user.js, routes/auth.js: the handlers of POST     *)
(* /bookmark, POST /read, DELETE /account and POST /login between their     *)
(* awaits. The database runs one statement at a time; between two           *)
(* statements of one handler the statements of the other handlers in flight *)
(* can run. A handler starts behind authenticateToken, or in POST /login    *)
(* with the body validated, and is then at its first statement.             *)

Slots == 1..MaxFlights

\* a slot no request has taken
NoFlight ==
    [route |-> "none", pc |-> "free", userId |-> "none", token |-> NoToken,
     articleId |-> NoArticleId, password |-> "missing", res |-> NoResponse]

FlightsIdle == user_reading_history = {} /\ flights = [s \in Slots |-> NoFlight]

\* the handler of f is at the statement `stage`
At(f, stage) == [f EXCEPT !.pc = stage]

\* the handler of f has answered
Answered(f, response) == [f EXCEPT !.pc = "answered", !.res = response]

Refused(f, status, error) == Answered(f, [status |-> status, error |-> error])

\* the four tables the handlers of this part read and write
FlightTables ==
    [users |-> users, sessions |-> user_sessions, bookmarks |-> user_bookmarks,
     history |-> user_reading_history]

\* one step of the handler in `slot`: where it is afterwards, and the tables
\* after the statement it ran
Step(slot, f, T) ==
    /\ flights' = [flights EXCEPT ![slot] = f]
    /\ users' = T.users
    /\ user_sessions' = T.sessions
    /\ user_bookmarks' = T.bookmarks
    /\ user_reading_history' = T.history
    /\ removedTokens' = removedTokens \cup
                            {s.token : s \in user_sessions \ T.sessions}
    /\ UNCHANGED <<routeVars, now, cacheVars>>
    /\ UNCHANGED <<engineVars, lastFetch, textVars, scoreVars>>

\* a request arrives at a route behind authenticateToken: the middleware
\* answers, or the handler runs up to its first await; `first` is what the
\* handler is then, for the authenticated user
Arrive(slot, route, file, token, articleId, password, first) ==
    /\ flights[slot].pc = "free"
    /\ LET auth == authenticateToken(file, token, TRUE, user_sessions, epoch)
           f    == [route |-> route, pc |-> "free", userId |-> auth.userId,
                    token |-> token, articleId |-> articleId,
                    password |-> password, res |-> NoResponse]
       IN Step(slot, IF auth.ok THEN [first EXCEPT !.userId = auth.userId]
                                ELSE Answered(f, auth.res),
               FlightTables)

\* what a request is before the middleware has named its user
Incoming(route, token, articleId, password) ==
    [route |-> route, pc |-> "free", userId |-> "none", token |-> token,
     articleId |-> articleId, password |-> password, res |-> NoResponse]

\* router.post('/bookmark', authenticateToken, ...) up to
\* `await getQuery(SELECT id FROM user_bookmarks ...)`
BookmarkArrives(slot, token, body) ==
    LET f == Incoming("POST /bookmark", token, body.articleId, "missing")
    IN Arrive(slot, "POST /bookmark", "news", token, body.articleId, "missing",
              IF body.articleId = NoArticleId \/ ~body.title \/ ~body.url
              THEN Refused(f, 400, "Article ID, title, and URL are required")
              ELSE At(f, "select"))

\* the SELECT of POST /bookmark runs; the handler answers 400 or goes on to
\* `await runQuery(INSERT INTO user_bookmarks ...)`
BookmarkSelect(slot) ==
    LET f == flights[slot]
    IN /\ f.route = "POST /bookmark" /\ f.pc = "select"
       /\ Step(slot,
               IF \E b \in user_bookmarks :
                      b.user_id = f.userId /\ b.article_id = f.articleId
               THEN Refused(f, 400, "Article already bookmarked")
               ELSE At(f, "insert"),
               FlightTables)

\* the INSERT of POST /bookmark runs: UNIQUE(user_id, article_id) makes the
\* statement fail when the table has a row of the pair, and the catch block
\* answers 500
BookmarkInsert(slot) ==
    LET f   == flights[slot]
        row == [id |-> NextId(user_bookmarks), user_id |-> f.userId,
                article_id |-> f.articleId,
                bookmarked_at |-> CURRENT_TIMESTAMP(now)]
    IN /\ f.route = "POST /bookmark" /\ f.pc = "insert"
       /\ IF \E b \in user_bookmarks :
                 b.user_id = f.userId /\ b.article_id = f.articleId
          THEN Step(slot, Refused(f, 500, "Failed to bookmark article"),
                    FlightTables)
          ELSE Step(slot,
                    Answered(f, [status |-> 200, success |-> TRUE,
                                 bookmarkId |-> row.id]),
                    [FlightTables EXCEPT !.bookmarks = @ \cup {row}])

\* router.post('/read', authenticateToken, ...) up to
\* `await runQuery(INSERT INTO user_reading_history ...)`
ReadArrives(slot, token, articleId) ==
    LET f == Incoming("POST /read", token, articleId, "missing")
    IN Arrive(slot, "POST /read", "news", token, articleId, "missing",
              IF articleId = NoArticleId
              THEN Refused(f, 400, "Article ID is required")
              ELSE At(f, "insert"))

\* the INSERT of POST /read runs: no constraint of the table is enforced but
\* the primary key, and the id is new
ReadInsert(slot) ==
    LET f   == flights[slot]
        row == [id |-> NextId(user_reading_history), user_id |-> f.userId,
                article_id |-> f.articleId, reading_time |-> 0]
    IN /\ f.route = "POST /read" /\ f.pc = "insert"
       /\ Step(slot,
               Answered(f, [status |-> 200, success |-> TRUE,
                            message |-> "Reading tracked successfully"]),
               [FlightTables EXCEPT !.history = @ \cup {row}])

\* router.delete('/account', authenticateToken, ...) up to
\* `await getQuery('SELECT password_hash FROM users WHERE id = ?')`
AccountArrives(slot, token, password) ==
    LET f == Incoming("DELETE /account", token, NoArticleId, password)
    IN Arrive(slot, "DELETE /account", "user", token, NoArticleId, password,
              IF password = "missing"
              THEN Refused(f, 400, "Password confirmation required")
              ELSE At(f, "select"))

\* the SELECT of DELETE /account runs, then bcrypt.compare
AccountSelect(slot) ==
    LET f == flights[slot]
    IN /\ f.route = "DELETE /account" /\ f.pc = "select"
       /\ Step(slot,
               IF ~UserIn(FlightTables, f.userId)
               THEN Refused(f, 404, "User not found")
               ELSE IF f.password = "wrong"
               THEN Refused(f, 400, "Password is incorrect")
               ELSE At(f, "delete history"),
               FlightTables)

\* one of the four DELETE statements of DELETE /account runs; after the
\* last one the handler answers
AccountDelete(slot) ==
    LET f == flights[slot]
    IN /\ f.route = "DELETE /account"
       /\ \/ /\ f.pc = "delete history"
             /\ Step(slot, At(f, "delete bookmarks"),
                     [FlightTables EXCEPT
                         !.history = {r \in @ : r.user_id # f.userId}])
          \/ /\ f.pc = "delete bookmarks"
             /\ Step(slot, At(f, "delete sessions"),
                     [FlightTables EXCEPT
                         !.bookmarks = {r \in @ : r.user_id # f.userId}])
          \/ /\ f.pc = "delete sessions"
             /\ Step(slot, At(f, "delete user"),
                     [FlightTables EXCEPT
                         !.sessions = {r \in @ : r.user_id # f.userId}])
          \/ /\ f.pc = "delete user"
             /\ Step(slot,
                     Answered(f, [status |-> 200, success |-> TRUE,
                                  message |-> "Account deleted successfully"]),
                     [FlightTables EXCEPT
                         !.users = {r \in @ : r.id # f.userId}])

\* router.post('/login', ...) with the email of user `id`, up to
\* `await getQuery(SELECT ... FROM users WHERE email = ?)`; password is
\* "valid" or "wrong"
LoginArrives(slot, id, password) ==
    /\ flights[slot].pc = "free"
    /\ Step(slot, [Incoming("POST /login", NoToken, NoArticleId, password)
                      EXCEPT !.userId = id, !.pc = "select"],
            FlightTables)

\* the SELECT of POST /login runs, then bcrypt.compare and jwt.sign
LoginSelect(slot) ==
    LET f == flights[slot]
    IN /\ f.route = "POST /login" /\ f.pc = "select"
       /\ Step(slot,
               IF ~UserIn(FlightTables, f.userId) \/ f.password # "valid"
               THEN Refused(f, 401, "Invalid email or password")
               ELSE [f EXCEPT !.pc = "delete expired",
                              !.token = jwtSign(f.userId, epoch)],
               FlightTables)

\* DELETE FROM user_sessions WHERE user_id = ? AND expires_at < datetime("now")
LoginCleanup(slot) ==
    LET f == flights[slot]
    IN /\ f.route = "POST /login" /\ f.pc = "delete expired"
       /\ Step(slot, At(f, "insert"),
               [FlightTables EXCEPT
                   !.sessions = {s \in @ :
                       ~(s.user_id = f.userId
                         /\ ExpiresBeforeNow(s.expires_at, epoch))}])

\* INSERT INTO user_sessions (id, user_id, token, expires_at)
LoginInsert(slot) ==
    LET f   == flights[slot]
        row == [id |-> NextId(user_sessions), user_id |-> f.userId,
                token |-> f.token, expires_at |-> epoch + SESSION_SECONDS]
    IN /\ f.route = "POST /login" /\ f.pc = "insert"
       /\ Step(slot,
               Answered(f, [status |-> 200, message |-> "Login successful",
                            token |-> f.token]),
               [FlightTables EXCEPT !.sessions = @ \cup {row}])

-----------------------------------------------------------------------------
(* The inputs the specifications draw from *)

sOttawa ==
    <<"O","t","t","a","w","a">>

sON ==
    <<"O","N">>

sTechnology ==
    <<"t","e","c","h","n","o","l","o","g","y">>

sChef ==
    <<"c","h","e","f">>

sConstructor ==
    <<"c","o","n","s","t","r","u","c","t","o","r">>

sAIBoomInTech ==
    <<"A","I"," ","b","o","o","m"," ","i","n"," ","t","e","c","h">>

sTechGiantsRally ==
    <<"T","e","c","h"," ","G","i","a","n","t","s"," ","R","a","l","l","y">>

sMarketsFall ==
    <<"M","a","r","k","e","t","s"," ","f","a","l","l">>

sNewTechStocks ==
    <<"N","e","w"," ","t","e","c","h"," ","s","t","o","c","k","s">>

sMarkupTitle ==
    <<"<","b",">","A","I","<","/","b",">"," ","b","o","o","m"," ","&","a",
      "m","p",";"," ","t","e","c","h">>

sTech ==
    <<"t","e","c","h">>

sTECH ==
    <<"T","E","C","H">>

sBloombergNews ==
    <<"B","l","o","o","m","b","e","r","g"," ","N","e","w","s">>

sBloombergLower ==
    <<"b","l","o","o","m","b","e","r","g">>

sUrl1 ==
    <<"h","t","t","p","s",":","/","/","n","e","w","s",".","e","x","a","m",
      "p","l","e","/","a">>

Profile(city, state, country, career_field) ==
    [city |-> city, state |-> state, country |-> country,
     career_field |-> career_field]

\* a profile with a career field of the table, one with an unknown career
\* field and empty location fields, and one whose career field names a
\* property every object inherits
Profiles ==
    {Profile(sOttawa, sON, sCA, sTechnology),
     Profile(Empty, Empty, Empty, sChef),
     Profile(sOttawa, sON, sCA, sConstructor)}

NoProfile == Profile(Empty, Empty, Empty, Empty)

\* two articles of the news source: one with markup in its title and no
\* description, one without title, url, date and source
Upstream1(clock) ==
    RawArticle(sMarkupTitle, Null, sUrl1, Null, PublishedAt("iso", clock - 1),
               sBloomberg)

Upstream2 ==
    RawArticle(Null, sNewTechStocks, Null, Null, PublishedAt("null", 0), Null)

\* the article lists a successful call may answer with: none, one, and more
\* than any page size asked for
Responses(clock) ==
    {<<>>,
     <<Upstream1(clock)>>,
     [i \in 1..MaxArticles |-> IF i % 2 = 1 THEN Upstream1(clock) ELSE Upstream2]}

Outcomes(clock) ==
    {[kind |-> k, articles |-> <<>>] : k \in OutcomeKinds \ {"ok"}}
    \cup {[kind |-> "ok", articles |-> l] : l \in Responses(clock)}

\* The outcomes drawn for the calls of a whole request. fetchNewsFromAPI has
\* one catch block for every failure and `|| []` for a missing list, so the
\* engine cannot tell a time-out from the other failures, nor a missing list
\* from an empty one: one failure and the lists stand for all of them here
\* (SpecFetch draws every outcome).
EngineOutcomes(clock) == {o \in Outcomes(clock) : o.kind \in {"ok", "timeout"}}

\* the users table with one registered user: any career field, and any of
\* city, state and country left empty (registration stores '' for them)
UserRow1(career_field, city, state, country) ==
    [id |-> "u1", career_field |-> career_field, city |-> city,
     state |-> state, country |-> country, password_hash |-> "h0"]

UserTables ==
    {{UserRow1(c, ci, st, co)} :
        c \in {sTechnology, sChef, sConstructor},
        ci \in {Empty, sOttawa}, st \in {Empty, sON}, co \in {Empty, sCA}}

\* req.userId: the registered user, and one whose row is gone
UserIds == {"u1", "u2"}

\* the outcomes of the calls of one request, all alike
AllOuts(o) == [location |-> <<o, o, o>>, industry |-> <<o, o>>, global |-> <<o>>]

\* every call fails; every call answers one article; every call answers two
\* articles, the second without url
RouteOuts(clock) ==
    {AllOuts([kind |-> "timeout", articles |-> <<>>]),
     AllOuts([kind |-> "ok", articles |-> <<Upstream1(clock)>>]),
     AllOuts([kind |-> "ok", articles |-> <<Upstream1(clock), Upstream2>>])}

\* req.params.category
CategoryParams == validCategories \cup {"sports"}

\* parseInt(req.query.limit)
LimitParams == {1, 10}

\* the characters the two patterns of sanitizeText and trim tell apart
TextChars == {"<", ">", "&", ";", "a", " "}

QueryChars == {"a", "B", " ", "<"}

RECURSIVE TextsUpTo(_, _)
TextsUpTo(chars, n) ==
    IF n = 0 THEN {<<>>}
    ELSE LET shorter == TextsUpTo(chars, n - 1)
         IN shorter \cup {Append(s, c) : s \in {x \in shorter : Len(x) = n - 1},
                                         c \in chars}

ScoreTitles == {Null, sAIBoomInTech, sTechGiantsRally, sMarketsFall}

ScoreDescriptions == {Null, Empty, sNewTechStocks}

ScoreKeywords == {sTech, sTECH, Empty}

ScoreSources == {Null, sBloomberg, sBloombergNews, sBloombergLower}

\* the call time of the scoring specification
ScoreNow == MaxAge

ScorePublished ==
    {PublishedAt("iso", t) : t \in 0..(MaxAge + MaxFuture)}
    \cup {PublishedAt(k, 0) : k \in {"undefined", "null", "garbage"}}

ScoreArticles ==
    {RawArticle(t, d, sUrl1, Null, pa, s) :
        t \in ScoreTitles, d \in ScoreDescriptions, pa \in ScorePublished,
        s \in ScoreSources}

\* the articles saved to the cache: placeholders of the city query as
\* getLocationBasedNews makes them, and an upstream article without url
CacheArticles ==
    LET p    == Profile(sOttawa, sON, sCA, sTechnology)
        q    == LocationQueries(p.city, p.state, p.country)[1]
        mock == getMockNewsData(q, ClockStart)
    IN {ProcessLocation(mock[i], NewId("location", 1, i), q, p, ClockStart) :
            i \in 1..MaxCacheIds}
       \cup {ProcessLocation(Upstream2, NewId("location", 2, 1), q, p, ClockStart)}

-----------------------------------------------------------------------------
(* The state of each part before it is used *)

NotRun == <<"NOT RUN">>

NoArticle == RawArticle(Null, Null, Null, Null, PublishedAt("undefined", 0), Null)

NotScored == [done |-> FALSE, value |-> 0]

NoFetch == [called |-> FALSE, query |-> Empty, failed |-> FALSE, articles |-> <<>>]

EngineIdle ==
    /\ profile = NoProfile
    /\ pc = "idle"
    /\ groups = [g \in GroupNames |-> IdleGroup]
    /\ calls = NoCalls
    /\ result = NoResult
    /\ labelled = NotLabelled
    /\ settled = NoneSettled

FetchIdle == lastFetch = NoFetch

CacheIdle ==
    /\ tzOffset = 0
    /\ news_articles = {}
    /\ lastRefresh = NoRefresh
    /\ op = NoOp

TextIdle == text = Null /\ clean = NotRun /\ clean2 = NotRun

ScoreIdle == article = NoArticle /\ keyword = Empty /\ score = NotScored

TablesEmpty == users = {} /\ user_sessions = {} /\ user_bookmarks = {}

RoutesIdle ==
    epoch = 0 /\ req = NoRequest /\ res = NoResponse /\ engineCall = NoEngineCall

ApiIdle == TablesEmpty /\ RoutesIdle /\ removedTokens = {} /\ FlightsIdle

\* the registered user of the sessions and bookmarks specifications
SessionUsers == {UserRow1(sTechnology, sOttawa, sON, sCA)}

\* the tokens a client can present: none, a token nobody signed, and every
\* token the server can have signed
PresentedTokens ==
    {NoToken, [jwtSign("u1", 0) EXCEPT !.signed = FALSE]}
    \cup {jwtSign("u1", i) : i \in 0..MaxEpoch}

PasswordBodies == {"missing", "short", "wrong", "valid"}

AccountBodies == {"missing", "wrong", "valid"}

\* the bodies of POST /bookmark: of an article of the cache, all fields given,
\* and with one field missing
BookmarkBodies ==
    {BookmarkBody(r.id) : r \in news_articles}
    \cup {BookmarkBody(NoArticleId),
          [BookmarkBody(<<"a">>) EXCEPT !.title = FALSE],
          [BookmarkBody(<<"a">>) EXCEPT !.url = FALSE]}

\* user_sessions after the registered user has logged in at second 0
LoggedIn == LoginOutcome([users |-> SessionUsers, sessions |-> {}, bookmarks |-> {}],
                         "u1", TRUE, 0).tables.sessions

\* the terms a location field is drawn from: two of them are the words the
\* label is decided by, two have such a word with a capital letter
LabelTerms ==
    {sOttawa, sON, sCA, sBusiness, sEconomy, sBusinessTimes, sEconomicDaily,
     Empty}

\* the queries getLocationBasedNews makes of these terms, and the bare terms
LabelQueries ==
    LabelTerms \cup
    UNION {{LocationQueries(t, t, t)[i] : i \in 1..3} : t \in LabelTerms}

-----------------------------------------------------------------------------
(* Spec: one getPersonalizedNews request and the settling of its outbound  *)
(* calls, in every order                                                   *)

Init ==
    /\ EngineIdle /\ FetchIdle /\ CacheIdle /\ TextIdle /\ ScoreIdle
    /\ ApiIdle
    /\ now = ClockStart

Next ==
    \/ \E p \in Profiles : Request(p)
    \/ \E g \in GroupNames : \E o \in EngineOutcomes(now) : Settle(g, o)

Spec == Init /\ [][Next]_vars

\* SpecLive: Spec where every outbound call settles: axios answers, fails or
\* gives up after its timeout of 10000 ms

\* a call of member g settles
CallSettles(g) ==
    /\ groups[g].status = "pending"
    /\ \E o \in EngineOutcomes(now) : settled' = [settled EXCEPT ![g] = Append(@, o)]

SpecLive ==
    /\ Init
    /\ [][Next]_vars
    /\ \A g \in GroupNames : WF_settled(CallSettles(g))

-----------------------------------------------------------------------------
(* SpecFetch: fetchNewsFromAPI alone, for any short query and any outcome  *)
(* of the outbound call                                                    *)

InitFetch ==
    /\ EngineIdle /\ FetchIdle /\ CacheIdle /\ TextIdle /\ ScoreIdle
    /\ ApiIdle
    /\ now = ClockStart

Fetch(query, outcome) ==
    /\ lastFetch' = [called |-> TRUE, query |-> query, failed |-> Failed(outcome),
                     articles |-> fetchNewsFromAPI(query, 20, outcome, now)]
    /\ UNCHANGED <<engineVars, now, cacheVars, textVars, scoreVars, apiVars>>

NextFetch ==
    \E q \in TextsUpTo(QueryChars, MaxQueryLen) :
        \E o \in Outcomes(now) : Fetch(q, o)

SpecFetch == InitFetch /\ [][NextFetch]_vars

-----------------------------------------------------------------------------
(* SpecCache: the article cache under saves, refreshes and the passing of  *)
(* time, for every offset of the server's local time                       *)

InitCache ==
    /\ EngineIdle /\ FetchIdle /\ TextIdle /\ ScoreIdle
    /\ ApiIdle
    /\ now = ClockStart
    /\ tzOffset \in -MaxTz..MaxTz
    /\ news_articles = {}
    /\ lastRefresh = NoRefresh
    /\ op = NoOp

\* an hour passes
Tick ==
    /\ now < ClockStart + MaxElapsed
    /\ now' = now + 1
    /\ op' = [name |-> "tick", ok |-> TRUE, id |-> NewId("none", 0, 0)]
    /\ UNCHANGED <<tzOffset, news_articles, lastRefresh>>
    /\ UNCHANGED <<engineVars, lastFetch, textVars, scoreVars, apiVars>>

NextCache ==
    \/ Tick
    \/ \E a \in CacheArticles : \E dbOk \in BOOLEAN : saveArticleToCache(a, dbOk)
    \/ \E dbOk \in BOOLEAN : refreshNewsCache(dbOk)

SpecCache == InitCache /\ [][NextCache]_vars

-----------------------------------------------------------------------------
(* SpecText: sanitizeText alone, applied to any short text and then to its *)
(* own output                                                              *)

InitText ==
    /\ EngineIdle /\ FetchIdle /\ CacheIdle /\ ScoreIdle
    /\ ApiIdle
    /\ now = ClockStart
    /\ text \in TextsUpTo(TextChars, MaxTextLen) \cup {Null}
    /\ clean = NotRun
    /\ clean2 = NotRun

Sanitize ==
    /\ clean = NotRun
    /\ clean' = sanitizeText(text)
    /\ UNCHANGED <<text, clean2>>
    /\ UNCHANGED <<engineVars, lastFetch, now, cacheVars, scoreVars, apiVars>>

SanitizeAgain ==
    /\ clean # NotRun
    /\ clean2 = NotRun
    /\ clean2' = sanitizeText(clean)
    /\ UNCHANGED <<text, clean>>
    /\ UNCHANGED <<engineVars, lastFetch, now, cacheVars, scoreVars, apiVars>>

NextText == Sanitize \/ SanitizeAgain

SpecText == InitText /\ [][NextText]_vars

-----------------------------------------------------------------------------
(* SpecScore: calculateRelevanceScore alone, for one article and keyword   *)

InitScore ==
    /\ EngineIdle /\ FetchIdle /\ CacheIdle /\ TextIdle
    /\ ApiIdle
    /\ now = ScoreNow
    /\ article \in ScoreArticles
    /\ keyword \in ScoreKeywords
    /\ score = NotScored

Score ==
    /\ ~score.done
    /\ score' = [done |-> TRUE,
                 value |-> calculateRelevanceScore(article, keyword, now)]
    /\ UNCHANGED <<article, keyword>>
    /\ UNCHANGED <<engineVars, lastFetch, now, cacheVars, textVars, apiVars>>

NextScore == Score

SpecScore == InitScore /\ [][NextScore]_vars

-----------------------------------------------------------------------------
(* SpecRoutes: GET /personalized and GET /category/:category for a         *)
(* registered user, with database faults, and the cache refresh            *)

InitRoutes ==
    /\ EngineIdle /\ FetchIdle /\ CacheIdle /\ TextIdle /\ ScoreIdle
    /\ RoutesIdle
    /\ removedTokens = {}
    /\ FlightsIdle
    /\ users \in UserTables
    /\ user_sessions = {}
    /\ user_bookmarks = {}
    /\ now = ClockStart

NextRoutes ==
    \/ /\ req.serial < MaxRouteRequests
       /\ \E u \in UserIds : \E outs \in RouteOuts(now) : \E f \in 0..MaxFailAt :
              GetPersonalized(u, outs, f)
    \/ /\ req.serial < MaxRouteRequests
       /\ \E u \in UserIds : \E c \in CategoryParams : \E l \in LimitParams :
              \E outs \in RouteOuts(now) : GetCategory(u, c, l, outs)
    \/ \E dbOk \in BOOLEAN : refreshNewsCache(dbOk)

SpecRoutes == InitRoutes /\ [][NextRoutes]_vars

-----------------------------------------------------------------------------
(* SpecSession: a registered user logs in and out, changes the password,   *)
(* deletes the account, and any token is presented to authenticated routes *)

InitSession ==
    /\ EngineIdle /\ FetchIdle /\ CacheIdle /\ TextIdle /\ ScoreIdle
    /\ RoutesIdle
    /\ removedTokens = {}
    /\ FlightsIdle
    /\ users = SessionUsers
    /\ user_sessions = {}
    /\ user_bookmarks = {}
    /\ now = ClockStart

NextSession ==
    \/ TickSecond
    \/ /\ Cardinality(user_sessions) < MaxSessions
       /\ \E pwOk \in BOOLEAN : PostLogin("u1", pwOk)
    \/ \E t \in PresentedTokens : \E dbOk \in BOOLEAN : PostLogout(t, dbOk)
    \/ \E t \in PresentedTokens : \E dbOk \in BOOLEAN : GetVerify(t, dbOk)
    \/ \E t \in PresentedTokens : \E dbOk \in BOOLEAN :
           \E body \in PasswordBodies : PutPassword(t, dbOk, body)
    \/ \E t \in PresentedTokens : \E dbOk \in BOOLEAN :
           \E body \in AccountBodies : DeleteAccount(t, dbOk, body)
    \/ /\ Cardinality(user_bookmarks) < MaxBookmarks
       /\ \E t \in PresentedTokens : \E dbOk \in BOOLEAN :
              PostBookmark(t, dbOk, BookmarkBody(<<"a">>))

SpecSession == InitSession /\ [][NextSession]_vars

-----------------------------------------------------------------------------
(* SpecBookmarks: a logged-in user fetches personalized news in the first  *)
(* hour, bookmarks articles of the cache and lists the bookmarks, while    *)
(* hours pass and the cache is refreshed; the server's local time is UTC   *)

InitBookmarks ==
    /\ EngineIdle /\ FetchIdle /\ CacheIdle /\ TextIdle /\ ScoreIdle
    /\ RoutesIdle
    /\ removedTokens = {}
    /\ FlightsIdle
    /\ users = SessionUsers
    /\ user_sessions = LoggedIn
    /\ user_bookmarks = {}
    /\ now = ClockStart

NextBookmarks ==
    \/ Tick
    \/ /\ req.serial < MaxRouteRequests
       /\ now = ClockStart
       /\ GetPersonalized("u1", AllOuts([kind |-> "ok",
                                         articles |-> <<Upstream1(now)>>]), 0)
    \/ /\ Cardinality(user_bookmarks) < MaxBookmarks
       /\ \E body \in BookmarkBodies : PostBookmark(jwtSign("u1", 0), TRUE, body)
    \/ GetBookmarks(jwtSign("u1", 0), TRUE)
    \/ \E dbOk \in BOOLEAN : refreshNewsCache(dbOk)

SpecBookmarks == InitBookmarks /\ [][NextBookmarks]_vars

-----------------------------------------------------------------------------
(* SpecLabel: the article getLocationBasedNews makes of one article of the *)
(* answer to one query, for any query, article and profile                 *)

InitLabel ==
    /\ EngineIdle /\ FetchIdle /\ CacheIdle /\ TextIdle /\ ScoreIdle
    /\ ApiIdle
    /\ now = ClockStart

\* articles.map(article => ({ ..., location_type: this.getLocationType(query), ... }))
Label(query, a, p) ==
    /\ labelled' = [done |-> TRUE, query |-> query,
                    article |-> ProcessLocation(a, NewId("location", 1, 1),
                                                query, p, now)]
    /\ UNCHANGED <<profile, pc, groups, calls, result, settled>>
    /\ UNCHANGED <<lastFetch, now, cacheVars, textVars, scoreVars, apiVars>>

NextLabel ==
    \E query \in LabelQueries : \E a \in {Upstream1(now), Upstream2} :
        \E p \in Profiles : Label(query, a, p)

SpecLabel == InitLabel /\ [][NextLabel]_vars

-----------------------------------------------------------------------------
(* SpecCacheLive: SpecCache with the clock running and the scheduled       *)
(* refresh (cron '0 */2 * * *') running again and again with its DELETE    *)
(* succeeding                                                              *)

\* the articles saved under SpecCacheLive: the first placeholder, and the
\* upstream article without url
LiveArticles == {a \in CacheArticles : a.id[3] = 1}

NextCacheLive ==
    \/ Tick
    \/ \E a \in LiveArticles : \E dbOk \in BOOLEAN : saveArticleToCache(a, dbOk)
    \/ \E dbOk \in BOOLEAN : refreshNewsCache(dbOk)

SpecCacheLive ==
    /\ InitCache
    /\ [][NextCacheLive]_vars
    /\ WF_vars(Tick)
    /\ WF_vars(refreshNewsCache(TRUE))

-----------------------------------------------------------------------------
(* SpecFlights: the registered user, logged in, sends MaxFlights requests   *)
(* to POST /bookmark, POST /read, DELETE /account and POST /login; their    *)
(* handlers run at the same time                                            *)

\* the article the requests are about
FlightArticle == NewId("location", 1, 1)

InitFlights ==
    /\ EngineIdle /\ FetchIdle /\ CacheIdle /\ TextIdle /\ ScoreIdle
    /\ RoutesIdle
    /\ removedTokens = {}
    /\ FlightsIdle
    /\ users = SessionUsers
    /\ user_sessions = LoggedIn
    /\ user_bookmarks = {}
    /\ now = ClockStart

NextFlights ==
    \E slot \in Slots :
        \/ \E token \in {NoToken, jwtSign("u1", 0)} :
             \/ \E body \in {BookmarkBody(FlightArticle), BookmarkBody(NoArticleId)} :
                    BookmarkArrives(slot, token, body)
             \/ \E articleId \in {FlightArticle, NoArticleId} :
                    ReadArrives(slot, token, articleId)
             \/ \E password \in AccountBodies : AccountArrives(slot, token, password)
        \/ \E password \in {"valid", "wrong"} : LoginArrives(slot, "u1", password)
        \/ BookmarkSelect(slot)
        \/ BookmarkInsert(slot)
        \/ ReadInsert(slot)
        \/ AccountSelect(slot)
        \/ AccountDelete(slot)
        \/ LoginSelect(slot)
        \/ LoginCleanup(slot)
        \/ LoginInsert(slot)

SpecFlights == InitFlights /\ [][NextFlights]_vars

-----------------------------------------------------------------------------
(* The claims *)

BucketKeys == {"local", "regional", "national", "industry", "global"}

\* every outbound call of the request has been answered, and each one failed
EveryQueryFailed ==
    \A g \in GroupNames :
        /\ groups[g].status = "fulfilled"
        /\ \A i \in DOMAIN groups[g].failed : groups[g].failed[i]

\* C1: for every profile and every outcome of the outbound calls,
\* getPersonalizedNews returns (it never throws), and what it returns has
\* exactly the keys local, regional, national, industry and global, each a
\* list of at most 5 articles.
C1_AlwaysFiveBuckets ==
    /\ pc # "failed"
    /\ pc = "done" =>
          /\ DOMAIN result = BucketKeys
          /\ \A k \in BucketKeys : Len(result[k]) <= 5

\* C2: when every outbound call of the request failed, each of the five
\* buckets returned is non-empty.
C2_NoEmptyBucketWhenAllFail ==
    (pc = "done" /\ EveryQueryFailed) =>
        \A k \in BucketKeys : Len(result[k]) > 0

\* C3: when the outbound call fails (time-out, non-2xx status, network error),
\* fetchNewsFromAPI returns a non-empty list of placeholder articles and the
\* title of each one contains the query.
C3_PlaceholdersNameQuery ==
    (lastFetch.called /\ lastFetch.failed) =>
        /\ Len(lastFetch.articles) > 0
        /\ \A i \in DOMAIN lastFetch.articles :
              Includes(lastFetch.articles[i].title, lastFetch.query)

C3_Witness ==
    /\ lastFetch.called
    /\ lastFetch.failed
    /\ Len(lastFetch.query) = MaxQueryLen
    /\ Len(lastFetch.articles) = 3

\* the indices of the queries member g has sent, in the order it sent them
SentIndices(g) == [i \in DOMAIN calls[g] |-> calls[g][i].idx]

\* C4: a request makes at most 3 location, 2 industry and 1 global outbound
\* calls (at most 6 in all); no query is sent twice, whatever its outcome, and
\* a member that has returned has sent each of its queries exactly once.
C4_AtMostSixCallsEachOnce ==
    /\ Len(calls["location"]) <= 3
    /\ Len(calls["industry"]) <= 2
    /\ Len(calls["global"]) <= 1
    /\ Len(calls["location"]) + Len(calls["industry"]) + Len(calls["global"]) <= 6
    /\ \A g \in GroupNames :
          /\ \A i, j \in DOMAIN calls[g] :
                i # j => calls[g][i].idx # calls[g][j].idx
          /\ groups[g].status = "fulfilled" =>
                SentIndices(g) = [i \in DOMAIN groups[g].queries |-> i]

\* six calls were made, some of them failed, and the request returned
C4_Witness ==
    /\ pc = "done"
    /\ Len(calls["location"]) + Len(calls["industry"]) + Len(calls["global"]) = 6
    /\ \E g \in GroupNames : \E i \in DOMAIN groups[g].failed : groups[g].failed[i]
    /\ \E g \in GroupNames : \E i \in DOMAIN groups[g].failed : ~groups[g].failed[i]

\* C5: the location group, the industry group and the global fetch are all
\* started before any of them has completed, and the buckets are built only
\* after all three have completed.
C5_StartedTogetherMergedAfterAll ==
    /\ \A g \in GroupNames : groups[g].startedAfter = {}
    /\ pc = "done" => \A g \in GroupNames : groups[g].status = "fulfilled"

\* the age of a cache row, hours
Age(r, clock) == clock - InstantOf(r.created_at)

\* C6: a refreshNewsCache whose DELETE succeeds removes every row created more
\* than 6 hours before the call and no row created less than 6 hours before
\* it, whatever the offset of the server's local time.
C6_RefreshDeletesExactlyTheOld ==
    [][ (op'.name = "refresh" /\ op'.ok) =>
            \A r \in news_articles :
                /\ Age(r, now) > RETENTION_HOURS => r \notin news_articles'
                /\ Age(r, now) < RETENTION_HOURS => r \in news_articles'
      ]_vars

\* C7: saving an article whose row is already in the table (same id, same
\* stored fields) leaves the table as it is, creation timestamp included.
C7_SaveTwiceIsSaveOnce ==
    [][ (op'.name = "save" /\ op'.ok
         /\ \E r \in news_articles :
               /\ r.id = op'.id
               /\ \E a \in CacheArticles :
                     a.id = op'.id /\ r = RowOf(a, InstantOf(r.created_at)))
        => news_articles' = news_articles
      ]_vars

\* a "<" followed, anywhere later, by a ">"
HasTag(s) ==
    \E i \in DOMAIN s : s[i] = "<" /\ \E j \in (i + 1)..Len(s) : s[j] = ">"

\* C8: sanitizeText is idempotent: sanitizing sanitized text changes nothing.
C8_Idempotent == clean2 # NotRun => clean2 = clean

\* C9: the output of sanitizeText holds no "<" with a ">" after it.
C9_NoTagLeft == clean # NotRun => ~HasTag(clean)

\* a text with two tags was sanitized and something of it is left
C9_Witness ==
    /\ clean # NotRun
    /\ text # Null
    /\ HasTag(text)
    /\ HasTag(StripTagsFirstOnly(text))
    /\ clean # Empty

\* C10: calculateRelevanceScore returns an integer from 0 to 10, whatever the
\* title, description, keyword, publication time and source.
C10_ScoreInRange == score.done => score.value \in 0..10

\* every scoring rule has applied, the article being dated after the call
C10_Witness ==
    /\ score.done
    /\ keyword # Empty
    /\ Includes(toLowerCase(OrElse(article.title, Empty)), toLowerCase(keyword))
    /\ Includes(toLowerCase(OrElse(article.description, Empty)), toLowerCase(keyword))
    /\ TrustedSource(article)
    /\ article.publishedAt.kind = "iso"
    /\ article.publishedAt.t > now
    /\ score.value = 9


\* the same letter, whatever its case
SameLetter(c, d) ==
    \/ c = d
    \/ \E i \in DOMAIN Uppers : {c, d} = {Uppers[i], Lowers[i]}

\* t occurs in s when the case of the letters is ignored
ContainsIgnoringCase(s, t) ==
    \E k \in 0..(Len(s) - Len(t)) :
        \A i \in 1..Len(t) : SameLetter(s[k + i], t[i])

\* 1 for a true condition, 0 for a false one
Indicator(b) == IF b THEN 1 ELSE 0

\* the recency bonus of an article published at p, scored at clock: 2 for an
\* age under 6 hours, 1 for an age under 24 hours, nothing otherwise; an
\* article without a date has the age 0, one with an unreadable date has none
ReferenceRecency(p, clock) ==
    CASE p.kind = "iso" /\ clock - p.t < 6  -> 2
      [] p.kind = "iso" /\ clock - p.t < 24 -> 1
      [] p.kind = "undefined"               -> 2
      [] OTHER                              -> 0

ReferenceScore(a, kw, clock) ==
    LET sum == 3 * Indicator(ContainsIgnoringCase(OrElse(a.title, Empty), kw))
               + 2 * Indicator(ContainsIgnoringCase(OrElse(a.description, Empty), kw))
               + ReferenceRecency(a.publishedAt, clock)
               + 2 * Indicator(\E n \in {sReuters, sBloomberg, sWallStreetJournal,
                                         sFinancialTimes} :
                                   Includes(OrElse(a.sourceName, Empty), n))
    IN IF sum > 10 THEN 10 ELSE sum

\* title 'AI boom in tech', description '', published 1 hour ago, source
\* 'Bloomberg', keyword 'tech'
ScenarioScored ==
    /\ score.done
    /\ article = RawArticle(sAIBoomInTech, Empty, sUrl1, Null,
                            PublishedAt("iso", now - 1), sBloomberg)
    /\ keyword = sTech

Categories == {"local", "regional", "national", "industry", "global"}

\* C12: every article made by getLocationBasedNews, by getIndustryNews and by
\* getPersonalizedNews has a category that is one of local, regional,
\* national, industry and global.
C12_CategoryIsABucketName ==
    /\ \A g \in {"location", "industry"} :
          \A i \in DOMAIN groups[g].allNews :
              groups[g].allNews[i].category \in Categories
    /\ pc = "done" =>
          \A k \in BucketKeys : \A i \in DOMAIN result[k] :
              result[k][i].category \in Categories

\* the number, in the list of getLocationBasedNews (1 city, 2 state,
\* 3 country), of the query that article n came from
QueryOf(n) == n.id[2]

\* C13: in the personalized result the local bucket holds articles of the
\* city query only, the regional bucket of the state query only, the national
\* bucket of the country query only, and when the location group returned an
\* article of the country query the national bucket is not empty.
C13_BucketsFollowTheGeographicQuery ==
    pc = "done" =>
        /\ \A i \in DOMAIN result["local"] : QueryOf(result["local"][i]) = 1
        /\ \A i \in DOMAIN result["regional"] : QueryOf(result["regional"][i]) = 2
        /\ \A i \in DOMAIN result["national"] : QueryOf(result["national"][i]) = 3
        /\ (\E i \in DOMAIN groups["location"].value :
                QueryOf(groups["location"].value[i]) = 3)
           => Len(result["national"]) > 0

\* the profile of the scenario
OttawaTechnologist == Profile(sOttawa, sON, sCA, sTechnology)

\* the scenario: the request of that profile returned after every one of its
\* outbound calls failed
ScenarioAllFailed ==
    pc = "done" /\ profile = OttawaTechnologist /\ EveryQueryFailed

\* 'Ottawa business', 'ON economy', 'CA business news' and the industries of
\* the career field technology
ScenarioTerms ==
    {sOttawa \o sSpBusiness, sON \o sSpEconomy, sCA \o sSpBusinessNews}
    \cup Range(CareerLookup(sTechnology).items)

PlaceholderSources == {sBusinessTimes, sEconomicDaily, sIndustryWeekly}

\* every article of every bucket is a placeholder naming one of the terms
AllPlaceholdersNaming(terms) ==
    \A k \in BucketKeys : \A i \in DOMAIN result[k] :
        /\ result[k][i].source_name \in PlaceholderSources
        /\ \E t \in terms : Includes(result[k][i].title, t)

\* C14 as stated: for the profile Ottawa, ON, CA, technology with every
\* outbound call failing, getPersonalizedNews succeeds and the title of every
\* article of every bucket contains 'Ottawa business', 'ON economy',
\* 'CA business news' or a technology industry keyword.
C14_PlaceholdersNameProfileTerms ==
    /\ profile = OttawaTechnologist => pc # "failed"
    /\ ScenarioAllFailed => AllPlaceholdersNaming(ScenarioTerms)

\* C14 amended: ... or 'global business economy', the fixed query of the
\* global fetch.
C14_PlaceholdersNameTheirQuery ==
    /\ profile = OttawaTechnologist => pc # "failed"
    /\ ScenarioAllFailed =>
          AllPlaceholdersNaming(ScenarioTerms \cup {sGlobalBusinessEconomy})

\* the scenario happened and the global bucket holds its three placeholders
C14_Witness ==
    /\ ScenarioAllFailed
    /\ Len(result["global"]) = 3
    /\ Len(result["industry"]) = 5
    /\ Len(result["local"]) = 5

\* C15: every handler that passes a user's city, state and country to the
\* engine substitutes a default for each empty one first: getLocationBasedNews
\* is never called with an empty city, state or country.
C15_EngineNeverGetsEmptyLocation ==
    engineCall.called =>
        /\ ~Falsy(engineCall.city)
        /\ ~Falsy(engineCall.state)
        /\ ~Falsy(engineCall.country)

\* this step is the handling of a request of the route by a registered user
Handles(route) ==
    /\ req'.serial # req.serial
    /\ req'.route = route
    /\ HasUser(req'.userId)

\* industries.slice throws for this user: the career field names a property
\* that every object inherits
FanOutThrows(user) == Industries(user.career_field).kind = "inherited"

\* the article has a row in the table
Cached(a, rows) == \E r \in rows : r.id = a.id

\* C16: a cache write that fails does not fail GET /personalized: the answer
\* is success with the five buckets, and every other article the table
\* accepts is saved; a refreshNewsCache whose delete fails completes and
\* leaves lastRefresh and the table as they were.
C16_CacheFailuresAreSwallowed ==
    [][ /\ (Handles("GET /personalized") /\ ~FanOutThrows(UserRow(req'.userId)))
           => /\ res'.status = 200
              /\ res'.success
              /\ DOMAIN res'.news = BucketKeys
              /\ LET all == AllArticles(res'.news)
                 IN \A i \in DOMAIN all :
                        (i # req'.dbFault /\ all[i].url # Null)
                            => Cached(all[i], news_articles')
        /\ (req' = req /\ op'.name = "refresh" /\ ~op'.ok)
           => lastRefresh' = lastRefresh /\ news_articles' = news_articles
      ]_vars

\* the write of the second article of a request was refused, the request
\* succeeded and the third article is in the table; a refresh failed and
\* this.lastRefresh is still unset
C16_Witness ==
    /\ req.route = "GET /personalized"
    /\ req.dbFault = 2
    /\ res.status = 200
    /\ ~Cached(AllArticles(res.news)[2], news_articles)
    /\ Cached(AllArticles(res.news)[3], news_articles)
    /\ op.name = "refresh"
    /\ ~op.ok
    /\ ~lastRefresh.set

\* C17: when the fan-out of getPersonalizedNews throws, GET /personalized
\* answers 500 'Failed to fetch personalized news' and nothing else: no
\* bucket is returned and no article is written to the cache.
C17_OneOpaqueFailure ==
    [][ (Handles("GET /personalized") /\ FanOutThrows(UserRow(req'.userId)))
        => /\ res' = [status |-> 500,
                      error |-> "Failed to fetch personalized news"]
           /\ news_articles' = news_articles
      ]_vars

\* a request of a user whose career field is 'constructor' was answered 500
C17_Witness ==
    /\ req.route = "GET /personalized"
    /\ HasUser(req.userId)
    /\ FanOutThrows(UserRow(req.userId))
    /\ res.status = 500
    /\ news_articles = {}

-----------------------------------------------------------------------------
(* Sessions *)

AuthenticatedRoutes ==
    {"POST /logout", "GET /verify", "PUT /password", "DELETE /account",
     "POST /bookmark", "GET /bookmarks"}

\* this step is a request to an authenticated route that presents a token
\* whose session row was removed before the step
PresentsRemovedToken ==
    /\ epoch' = epoch
    /\ req'.route \in AuthenticatedRoutes
    /\ req'.token \in removedTokens

\* no row of user_sessions carries the token the request presents
TokenHasNoRow == \A s \in user_sessions : s.token # req'.token

\* the step answers 401 and leaves every table as it was
RejectedUnchanged(statuses) ==
    /\ res'.status \in statuses
    /\ UNCHANGED <<tableVars, news_articles>>

\* C18 as stated: once the session row of a token has been removed by a
\* logout, a password change or an account deletion, every later request
\* that presents the token to an authenticated route is answered 401 and
\* changes no table.
C18_RemovedTokenIsRejected ==
    [][PresentsRemovedToken => RejectedUnchanged({401})]_vars

\* C18, amended: a request that presents a token whose session row has been
\* removed, and that no later login has issued again, changes no table and
\* is answered 401, or 500 by POST /logout and GET /verify when the query
\* for the session row fails.
C18_RemovedTokenIsRejectedUntilReissued ==
    [][(PresentsRemovedToken /\ TokenHasNoRow) =>
          /\ RejectedUnchanged({401, 500})
          /\ res'.status = 500 =>
                 /\ req'.route \in {"POST /logout", "GET /verify"}
                 /\ req'.dbFault # 0]_vars

C18_Witness ==
    /\ req.route \in AuthenticatedRoutes
    /\ req.token \in removedTokens
    /\ \A s \in user_sessions : s.token # req.token
    /\ res = [status |-> 401, error |-> "Invalid or expired token"]

-----------------------------------------------------------------------------
(* Bookmarks *)

\* C19: every bookmark a GET /bookmarks returns carries the title and the
\* url of its article, that is, the cache row of the article is still there.
C19_ListedBookmarksCarryTheirArticle ==
    (req.route = "GET /bookmarks" /\ res.status = 200) =>
        \A b \in res.bookmarks : b.title # Null /\ b.url # Null

-----------------------------------------------------------------------------
(* Location labels *)

\* the word occurs in the query, letter for letter
HasWord(query, word) ==
    \E k \in 0..(Len(query) - Len(word)) :
        \A i \in 1..Len(word) : query[k + i] = word[i]

-----------------------------------------------------------------------------
(* Recency bonus *)

\* the bonus of an article published at p for a call at clock, by its age:
\* 2 for 0 <= age < 6, 1 for 6 <= age < 24, and 0 for any other age and for
\* an article without a readable publication time
RecencyByAge(p, clock) ==
    IF p.kind # "iso" THEN 0
    ELSE IF 0 <= clock - p.t /\ clock - p.t < 6 THEN 2
    ELSE IF 6 <= clock - p.t /\ clock - p.t < 24 THEN 1
    ELSE 0

\* the part of the score that is not the recency bonus
ScoreWithoutRecency(a, kw) ==
    3 * Indicator(ContainsIgnoringCase(OrElse(a.title, Empty), kw))
    + 2 * Indicator(ContainsIgnoringCase(OrElse(a.description, Empty), kw))
    + 2 * Indicator(TrustedSource(a))

\* C21: the recency bonus in a score is 2 exactly for an article published
\* within the 6 hours before the call, 1 exactly for one published at least 6
\* and less than 24 hours before it, and 0 otherwise, also for an article
\* published after the call or without a valid publication time.
C21_RecencyBonusByAge ==
    score.done =>
        score.value = Min(10, ScoreWithoutRecency(article, keyword)
                              + RecencyByAge(article.publishedAt, now))

-----------------------------------------------------------------------------
(* Entities *)

\* an "&", then one or more word characters or "#", then a ";"
HasEntity(s) ==
    \E i \in DOMAIN s : \E j \in (i + 2)..Len(s) :
        /\ s[i] = "&"
        /\ s[j] = ";"
        /\ \A k \in (i + 1)..(j - 1) : s[k] \in WordChars \cup {"#"}

\* C22: the output of sanitizeText holds no entity-shaped substring: no "&"
\* followed by one or more word characters or "#" and then ";".
C22_NoEntityLeft == clean # NotRun => ~HasEntity(clean)

-----------------------------------------------------------------------------
(* Buckets *)

\* the first n elements of s, all of s when it is shorter
FirstN(s, n) == [i \in 1..(IF Len(s) < n THEN Len(s) ELSE n) |-> s[i]]

\* the articles of s that carry the label b, in the order of s
Labelled(s, b) == SelectSeq(s, LAMBDA n : n.location_type = b)

\* the articles of s stand in the order of their queries and, for one query,
\* in the order of its answer
InFetchOrder(s) ==
    \A i, j \in DOMAIN s :
        i < j => \/ s[i].id[2] < s[j].id[2]
                 \/ s[i].id[2] = s[j].id[2] /\ s[i].id[3] < s[j].id[3]

\* what the claim fixes apart from the location buckets: the industry bucket,
\* the order of the collected articles and the sizes of the members' values
IndustryBucketAndSizes ==
    /\ result["industry"] = FirstN(groups["industry"].allNews, 5)
    /\ InFetchOrder(groups["location"].allNews)
    /\ InFetchOrder(groups["industry"].allNews)
    /\ Len(groups["location"].value) <= 15
    /\ Len(groups["industry"].value) <= 5

\* C23 as stated: each bucket is the first 5 articles, in fetch order, of the
\* articles of that bucket in the concatenation of its queries' answers;
\* getLocationBasedNews returns at most 15 articles, getIndustryNews at most 5.
C23_BucketsAreFirstFiveOfTheAnswers ==
    pc = "done" =>
        /\ \A b \in {"local", "regional", "national"} :
              result[b] = FirstN(Labelled(groups["location"].allNews, b), 5)
        /\ IndustryBucketAndSizes

\* C23, amended: each location bucket is the first 5 articles, in fetch
\* order, of the articles of that bucket among the first 15 articles of the
\* concatenation of the three answers; the rest as stated.
C23_BucketsAreFirstFiveOfTheFirstFifteen ==
    pc = "done" =>
        /\ \A b \in {"local", "regional", "national"} :
              result[b] =
                  FirstN(Labelled(FirstN(groups["location"].allNews, 15), b), 5)
        /\ IndustryBucketAndSizes

\* more than 15 location articles were collected, the local bucket was cut to
\* 5, and it holds an article with a higher score after one with a lower
C23_Witness ==
    /\ pc = "done"
    /\ Len(groups["location"].allNews) > 15
    /\ Len(Labelled(groups["location"].allNews, "local")) > 5
    /\ \E i, j \in DOMAIN result["local"] :
          i < j /\ result["local"][i].relevance_score
                   < result["local"][j].relevance_score

-----------------------------------------------------------------------------
(* Industry queries *)

\* the industry keywords the claim expects for a career field: the first two
\* the table lists for it, or the career field itself when the table has no
\* entry for it
ExpectedKeywords(careerField) ==
    IF \E i \in DOMAIN CAREER_INDUSTRIES : CAREER_INDUSTRIES[i].key = careerField
    THEN LET row == CHOOSE i \in DOMAIN CAREER_INDUSTRIES :
                        CAREER_INDUSTRIES[i].key = careerField
         IN FirstN(CAREER_INDUSTRIES[row].industries, 2)
    ELSE <<careerField>>

\* the texts of the queries the industry member has sent, in order
IndustryQueriesSent == [i \in DOMAIN calls["industry"] |-> calls["industry"][i].query]

\* C24: getIndustryNews sends '{industry} business news' for each of the first
\* two keywords the table lists for the career field, in table order, and one
\* query built from the career field itself when the table does not list it;
\* it never sends more than two queries.
C24_IndustryQueriesFollowTheTable ==
    pc # "idle" =>
        LET expected == [i \in DOMAIN ExpectedKeywords(profile.career_field) |->
                            ExpectedKeywords(profile.career_field)[i]
                            \o sSpBusinessNews]
        IN /\ Len(IndustryQueriesSent) <= 2
           /\ Len(IndustryQueriesSent) >= 1
           /\ IndustryQueriesSent = FirstN(expected, Len(IndustryQueriesSent))
           /\ groups["industry"].status # "pending" =>
                  IndustryQueriesSent = expected

-----------------------------------------------------------------------------
(* Cache expiry *)

\* every row a save of SpecCacheLive can write
CacheRows ==
    {RowOf(a, t) : a \in LiveArticles, t \in ClockStart..(ClockStart + MaxElapsed)}

\* the clock of the model can still advance by the largest offset of the
\* server's local time
ClockHasRoom == now + MaxTz <= ClockStart + MaxElapsed

\* refreshNewsCache inserts no row and changes none
RefreshOnlyDeletes ==
    [][op'.name = "refresh" => news_articles' \subseteq news_articles]_vars

-----------------------------------------------------------------------------
(* Completion of getPersonalizedNews *)

\* an outbound call of the request has not settled
CallPending == \E g \in GroupNames : groups[g].status = "pending"

\* a running request changes only by the settling of a call, and stops
\* running only by returning, with no call pending
RunsUntilAllSettled ==
    [][pc = "running" =>
          /\ profile' = profile
          /\ pc' \in {"running", "done"}
          /\ pc' = "done" => ~CallPending'
          /\ \E g \in GroupNames :
                /\ groups[g].status = "pending"
                /\ \A h \in GroupNames \ {g} : groups'[h] = groups[h]]_vars

\* C26: when every outbound call settles, a getPersonalizedNews call that is
\* running eventually returns its buckets or fails; nothing ends it but the
\* settling of its calls, and it never returns while a call is pending.
C26_CallCompletesWhenCallsSettle ==
    /\ (pc = "running") ~> (pc \in {"done", "failed"})
    /\ [](pc = "done" => result # NoResult /\ ~CallPending)
    /\ RunsUntilAllSettled

\* the request has returned its buckets after waiting for calls that failed
\* and calls that answered
C26_Witness ==
    /\ pc = "done" /\ result # NoResult
    /\ \A g \in GroupNames : Len(calls[g]) >= 1
    /\ \E g \in GroupNames : \E i \in DOMAIN groups[g].failed : groups[g].failed[i]
    /\ \E g \in GroupNames : \E i \in DOMAIN groups[g].failed : ~groups[g].failed[i]
    /\ Len(calls["location"]) = 3 /\ Len(calls["industry"]) = 2

-----------------------------------------------------------------------------
(* One query at a time in each member *)

\* the outbound calls of member g that were sent and have not settled
InFlight(g) == Len(calls[g]) - Len(settled[g])

\* C27: in each member the queries are sent in their order and one at a time,
\* query q + 1 only when the calls for queries 1..q have settled; so a
\* request has at most 3 outbound calls in flight, one for each member.
C27_OneCallInFlightPerMember ==
    /\ \A g \in GroupNames :
          /\ InFlight(g) \in {0, 1}
          /\ InFlight(g) = 1 <=> groups[g].status = "pending"
          /\ \A i \in DOMAIN calls[g] :
                calls[g][i] = [idx |-> i, query |-> groups[g].queries[i]]
    /\ InFlight("location") + InFlight("industry") + InFlight("global") <= 3

\* the country query and the second industry query are in flight after the
\* queries before them have settled, the global query is in flight too
C27_Witness ==
    /\ Len(calls["location"]) = 3 /\ Len(settled["location"]) = 2
    /\ Len(calls["industry"]) = 2 /\ Len(settled["industry"]) = 1
    /\ InFlight("global") = 1

-----------------------------------------------------------------------------
(* The order of completion *)


-----------------------------------------------------------------------------
(* Handlers in flight at the same time *)

\* the requests to POST /bookmark of user u for article a that have answered
BookmarkRequests(u, a) ==
    {s \in Slots : /\ flights[s].route = "POST /bookmark"
                   /\ flights[s].pc = "answered"
                   /\ flights[s].userId = u
                   /\ flights[s].articleId = a}

\* C29: of the bookmark requests of one user for one article, however their
\* statements interleave, at most one succeeds (exactly one once two have
\* answered), every other one is answered 400 'Article already bookmarked',
\* and the table holds one row of the pair for the request that succeeded
\* and never two. (Stated for the behaviours without a DELETE /account.)
C29_OneBookmarkPerPair ==
    (\A s \in Slots : flights[s].route # "DELETE /account") =>
        LET answered  == BookmarkRequests("u1", FlightArticle)
            succeeded == {s \in answered : flights[s].res.status = 200}
            rows      == {b \in user_bookmarks :
                             b.user_id = "u1" /\ b.article_id = FlightArticle}
        IN /\ Cardinality(succeeded) <= 1
           /\ Cardinality(answered) >= 1 => Cardinality(succeeded) = 1
           /\ \A s \in answered \ succeeded :
                 flights[s].res =
                     [status |-> 400, error |-> "Article already bookmarked"]
           /\ Cardinality(rows) = Cardinality(succeeded)

\* C30: once DELETE /account has answered success, no row of
\* user_reading_history, user_bookmarks or user_sessions has the user_id of
\* the deleted user, whatever the user's other handlers in flight did while
\* the deletes ran.
C30_NoRowOfTheDeletedUser ==
    \A s \in Slots :
        (/\ flights[s].route = "DELETE /account"
         /\ flights[s].pc = "answered"
         /\ flights[s].res.status = 200) =>
            \A r \in user_reading_history \cup user_bookmarks \cup user_sessions :
                r.user_id # flights[s].userId

=============================================================================
